---- MODULE Spec2Model ----
(***************************************************************************)
(* Genealogy manager: the layered, id-addressed family tree of gmlib (the  *)
(* Tree class with its atomic edits, composite edit builders and layout)   *)
(* and the undo/redo session of gmui.Window.                               *)
(***************************************************************************)
EXTENDS Integers, Sequences, FiniteSets, TLC

VARIABLES tree, gi_base, undo_stack, redo_stack, raised, last, before, origin, applied, painting,
          instances, text

vars == <<tree, gi_base, undo_stack, redo_stack, raised, last, before, origin, applied, painting,
          instances, text>>

(***************************************************************************)
(* Bounds of the model.                                                    *)
(***************************************************************************)
\* ids handed out by obtain_id stay in 0..MaxId
MaxId == 3
\* steps of one session in which a composite operation may be performed
MaxOps == 4
\* undo and redo steps a session may take after its MaxOps-th step
MaxUndoRedo == 2
\* cards are drawn from 0..MaxCard; 0 is the default card Card()
MaxCard == 1
\* atomic edits applied one after the other to a decoded forest
MaxEdits == 2
\* layers of a decoded forest
MaxForestLayers == 3
\* nodes per layer of a decoded forest
MaxForestWidth == 2
\* nodes of the decoded forest a run of the composite builders starts from
MaxStartNodes == 2
\* Tree instances constructed in one process
MaxInstances == 3
\* layers of a text of the codec
MaxCodecLayers == 3
\* names per layer of a text of the codec
MaxCodecWidth == 2
\* decodings and encodings of one text
MaxCodecSteps == 4
\* layers, names per layer and child names per node of an input of the decoder
MaxDecodeLayers == 2
MaxDecodeWidth == 2
MaxDecodeKids == 1

Cards == 0..MaxCard

\* Card(): the default card
DefaultCard == 0

\* GenerationIndexSettings.defs as offsets: the default definition (offset 0)
\* and the second definition of offset -10 that the test suite appends
gi_defs == <<0, -10>>

\* the generation indices a user may enter
GiValues == {17}

\* Python's None
None == [type |-> "None"]

NoExc == "none"

(***************************************************************************)
(* Python list semantics: indexing, slicing, del, insert.                  *)
(***************************************************************************)
Max(a, b) == IF a > b THEN a ELSE b

Min(a, b) == IF a < b THEN a ELSE b

\* s[i]: the 1-based position of index i, or 0 when s[i] raises IndexError
PyPos(s, i) ==
  LET j == IF i < 0 THEN i + Len(s) ELSE i
  IN IF j >= 0 /\ j < Len(s) THEN j + 1 ELSE 0

\* a slice bound: negative bounds count from the end, all bounds are clamped
PyBound(s, i) ==
  IF i < 0 THEN Max(i + Len(s), 0) ELSE Min(i, Len(s))

\* s[a:b]
PySlice(s, a, b) == SubSeq(s, PyBound(s, a) + 1, PyBound(s, b))

\* s[a:]
PySliceFrom(s, a) == SubSeq(s, PyBound(s, a) + 1, Len(s))

\* del s[i], for a valid i
PyDel(s, i) ==
  LET p == PyPos(s, i)
  IN SubSeq(s, 1, p - 1) \o SubSeq(s, p + 1, Len(s))

\* s.insert(i, v)
PyInsert(s, i, v) ==
  LET p == PyBound(s, i)
  IN SubSeq(s, 1, p) \o <<v>> \o SubSeq(s, p + 1, Len(s))

\* v in s
PyIn(v, s) == \E k \in 1..Len(s) : s[k] = v

\* s.remove(v): removes the first occurrence, for v in s
PyRemove(s, v) ==
  LET p == CHOOSE k \in 1..Len(s) : s[k] = v /\ \A j \in 1..(k - 1) : s[j] # v
  IN SubSeq(s, 1, p - 1) \o SubSeq(s, p + 1, Len(s))

\* dict with key k set to v
DictSet(d, k, v) == [i \in DOMAIN d \cup {k} |-> IF i = k THEN v ELSE d[i]]

\* del d[k]
DictDel(d, k) == [i \in DOMAIN d \ {k} |-> d[i]]

EmptyDict == [i \in {} |-> 0]

(***************************************************************************)
(* Node objects.  A Node of the node map is a record of its card,          *)
(* parent_id and child_ids.  _node_layers holds references to Node         *)
(* objects: a cell is live when it refers to the object the node map holds *)
(* for its id, and otherwise carries the fields of the object it still     *)
(* refers to (an object that left the node map is never written again).    *)
(***************************************************************************)
Node(card) == [card |-> card, parent_id |-> -1, child_ids |-> <<>>]

LiveCell(id) == [id |-> id, live |-> TRUE, card |-> 0, parent_id |-> -1, child_ids |-> <<>>]

\* the Node object a layer cell refers to
CellNode(t, cell) ==
  IF cell.live
    THEN t.node_dict[cell.id]
    ELSE [card |-> cell.card, parent_id |-> cell.parent_id, child_ids |-> cell.child_ids]

\* the object of id leaves the node map: the cells referring to it keep it
Detach(t, id) ==
  IF id \notin DOMAIN t.node_dict THEN t.node_layers
  ELSE LET n == t.node_dict[id]
           frozen == [id |-> id, live |-> FALSE, card |-> n.card,
                      parent_id |-> n.parent_id, child_ids |-> n.child_ids]
       IN [y \in DOMAIN t.node_layers |->
            [x \in DOMAIN t.node_layers[y] |->
              IF t.node_layers[y][x].live /\ t.node_layers[y][x].id = id
                THEN frozen ELSE t.node_layers[y][x]]]

\* Tree.__init__
EmptyTree ==
  [last_id |-> -1, node_dict |-> EmptyDict, node_layers |-> <<>>, node_yxs |-> EmptyDict]

nlayers(t) == Len(t.node_layers)

(***************************************************************************)
(* The atomic edits and their inverses.                                    *)
(***************************************************************************)
NewRightmostNode(y, id, card) == [type |-> "NewRightmostNode", y |-> y, id |-> id, card |-> card]

DeleteRightmostNode(y, id, card) == [type |-> "DeleteRightmostNode", y |-> y, id |-> id, card |-> card]

NewLayer(y) == [type |-> "NewLayer", y |-> y]

DeleteLayer(y) == [type |-> "DeleteLayer", y |-> y]

SetAsChild(parent_id, child_id) == [type |-> "SetAsChild", parent_id |-> parent_id, child_id |-> child_id]

UnsetAsChild(parent_id, child_id) == [type |-> "UnsetAsChild", parent_id |-> parent_id, child_id |-> child_id]

MoveNode(id, old_x, new_x) == [type |-> "MoveNode", id |-> id, old_x |-> old_x, new_x |-> new_x]

ModifyCard(id, old_card, new_card) == [type |-> "ModifyCard", id |-> id, old_card |-> old_card, new_card |-> new_card]

ModifyGenerationIndex(id, gi_index, old_gi, new_gi) ==
  [type |-> "ModifyGenerationIndex", id |-> id, gi_index |-> gi_index, old_gi |-> old_gi, new_gi |-> new_gi]

\* edit.reverse(); ModifyGenerationIndex inherits TreeEdit.reverse, whose body
\* is "..." and which therefore returns None
reverse(e) ==
  CASE e.type = "NewRightmostNode" -> DeleteRightmostNode(e.y, e.id, e.card)
    [] e.type = "DeleteRightmostNode" -> NewRightmostNode(e.y, e.id, e.card)
    [] e.type = "NewLayer" -> DeleteLayer(e.y)
    [] e.type = "DeleteLayer" -> NewLayer(e.y)
    [] e.type = "SetAsChild" -> UnsetAsChild(e.parent_id, e.child_id)
    [] e.type = "UnsetAsChild" -> SetAsChild(e.parent_id, e.child_id)
    [] e.type = "MoveNode" -> MoveNode(e.id, e.new_x, e.old_x)
    [] e.type = "ModifyCard" -> ModifyCard(e.id, e.new_card, e.old_card)
    [] OTHER -> None

\* [edit.reverse() for edit in reversed(edits)]
reversed_edits(edits) == [k \in 1..Len(edits) |-> reverse(edits[Len(edits) + 1 - k])]

(***************************************************************************)
(* Tree._apply_edit: one atomic edit, statement by statement.  The result  *)
(* is the tree and generation-index base after the statements that ran,    *)
(* and the exception that stopped them (NoExc when the edit returned).     *)
(***************************************************************************)
Res(t, b, exc) == [tree |-> t, base |-> b, exc |-> exc]

\* the ids of the cells of a list of layers, in iteration order
RECURSIVE CellIds(_)
CellIds(layers) ==
  IF layers = <<>> THEN <<>>
  ELSE [k \in 1..Len(Head(layers)) |-> Head(layers)[k].id] \o CellIds(Tail(layers))

\* for id in ids: yxs[id] = (yxs[id][0] + dy, yxs[id][1] + dx); a missing
\* key stops the loop with the entries written so far
RECURSIVE ShiftIndex(_, _, _, _)
ShiftIndex(yxs, ids, dy, dx) ==
  IF ids = <<>> THEN [yxs |-> yxs, exc |-> NoExc]
  ELSE IF Head(ids) \notin DOMAIN yxs THEN [yxs |-> yxs, exc |-> "KeyError"]
  ELSE ShiftIndex([yxs EXCEPT ![Head(ids)] = <<@[1] + dy, @[2] + dx>>], Tail(ids), dy, dx)

ApplyNewRightmostNode(t, b, e) ==
  LET t1 == [t EXCEPT !.node_layers = Detach(t, e.id),
                      !.node_dict = DictSet(t.node_dict, e.id, Node(e.card))]
      p == PyPos(t.node_layers, e.y)
  IN IF p = 0 THEN Res(t1, b, "IndexError")
     ELSE Res([t1 EXCEPT !.node_layers[p] = Append(@, LiveCell(e.id)),
                         !.node_yxs = DictSet(t.node_yxs, e.id, <<e.y, Len(t.node_layers[p])>>)],
              b, NoExc)

\* DeleteRightmostNode comparing the id only: "node.card != card" left out
ApplyDeleteRightmostNodeAnyCard(t, b, e) ==
  LET p == PyPos(t.node_layers, e.y)
  IN IF p = 0 THEN Res(t, b, "IndexError")
     ELSE IF t.node_layers[p] = <<>> THEN Res(t, b, "IndexError")
     ELSE LET cell == t.node_layers[p][Len(t.node_layers[p])]
          IN IF cell.id # e.id THEN Res(t, b, "TreeEditError")
             ELSE IF e.id \notin DOMAIN t.node_dict THEN Res(t, b, "KeyError")
             ELSE LET t1 == [t EXCEPT !.node_layers = Detach(t, e.id),
                                      !.node_dict = DictDel(t.node_dict, e.id)]
                      t2 == [t1 EXCEPT !.node_layers[p] = SubSeq(@, 1, Len(@) - 1)]
                  IN IF e.id \notin DOMAIN t.node_yxs THEN Res(t2, b, "KeyError")
                     ELSE Res([t2 EXCEPT !.node_yxs = DictDel(t.node_yxs, e.id)], b, NoExc)

\* DeleteRightmostNode taking the last node of the layer out of the layer
\* before it compares: the error leaves the layer one node shorter
ApplyDeleteRightmostNodePopsFirst(t, b, e) ==
  LET p == PyPos(t.node_layers, e.y)
  IN IF p = 0 THEN Res(t, b, "IndexError")
     ELSE IF t.node_layers[p] = <<>> THEN Res(t, b, "IndexError")
     ELSE LET cell == t.node_layers[p][Len(t.node_layers[p])]
              t0 == [t EXCEPT !.node_layers[p] = SubSeq(@, 1, Len(@) - 1)]
          IN IF cell.id # e.id \/ CellNode(t, cell).card # e.card THEN Res(t0, b, "TreeEditError")
             ELSE IF e.id \notin DOMAIN t.node_dict THEN Res(t, b, "KeyError")
             ELSE LET t1 == [t EXCEPT !.node_layers = Detach(t, e.id),
                                      !.node_dict = DictDel(t.node_dict, e.id)]
                      t2 == [t1 EXCEPT !.node_layers[p] = SubSeq(@, 1, Len(@) - 1)]
                  IN IF e.id \notin DOMAIN t.node_yxs THEN Res(t2, b, "KeyError")
                     ELSE Res([t2 EXCEPT !.node_yxs = DictDel(t.node_yxs, e.id)], b, NoExc)

ApplyDeleteRightmostNode(t, b, e) ==
  LET p == PyPos(t.node_layers, e.y)
  IN IF p = 0 THEN Res(t, b, "IndexError")
     ELSE IF t.node_layers[p] = <<>> THEN Res(t, b, "IndexError")
     ELSE LET cell == t.node_layers[p][Len(t.node_layers[p])]
          IN IF cell.id # e.id \/ CellNode(t, cell).card # e.card THEN Res(t, b, "TreeEditError")
             ELSE IF e.id \notin DOMAIN t.node_dict THEN Res(t, b, "KeyError")
             ELSE LET t1 == [t EXCEPT !.node_layers = Detach(t, e.id),
                                      !.node_dict = DictDel(t.node_dict, e.id)]
                      t2 == [t1 EXCEPT !.node_layers[p] = SubSeq(@, 1, Len(@) - 1)]
                  IN IF e.id \notin DOMAIN t.node_yxs THEN Res(t2, b, "KeyError")
                     ELSE Res([t2 EXCEPT !.node_yxs = DictDel(t.node_yxs, e.id)], b, NoExc)

ApplyNewLayer(t, b, e) ==
  LET sh == ShiftIndex(t.node_yxs, CellIds(PySliceFrom(t.node_layers, e.y)), 1, 0)
      t1 == [t EXCEPT !.node_yxs = sh.yxs]
  IN IF sh.exc # NoExc THEN Res(t1, b, sh.exc)
     ELSE Res([t1 EXCEPT !.node_layers = PyInsert(t.node_layers, e.y, <<>>)], b, NoExc)

ApplyDeleteLayer(t, b, e) ==
  LET sh == ShiftIndex(t.node_yxs, CellIds(PySliceFrom(t.node_layers, e.y + 1)), -1, 0)
      t1 == [t EXCEPT !.node_yxs = sh.yxs]
  IN IF sh.exc # NoExc THEN Res(t1, b, sh.exc)
     ELSE IF PyPos(t.node_layers, e.y) = 0 THEN Res(t1, b, "IndexError")
     ELSE Res([t1 EXCEPT !.node_layers = PyDel(t.node_layers, e.y)], b, NoExc)

\* SetAsChild without its last assignment: the child is appended to the child
\* list of the parent and the parent id of the child stays as it was
ApplySetAsChildWithoutParentLink(t, b, e) ==
  IF e.parent_id \notin DOMAIN t.node_dict \/ e.child_id \notin DOMAIN t.node_dict
    THEN Res(t, b, "KeyError")
  ELSE IF PyIn(e.child_id, t.node_dict[e.parent_id].child_ids)
          \/ t.node_dict[e.child_id].parent_id = e.parent_id
    THEN Res(t, b, "TreeEditError")
  ELSE IF e.parent_id \notin DOMAIN t.node_yxs \/ e.child_id \notin DOMAIN t.node_yxs
    THEN Res(t, b, "KeyError")
  ELSE IF t.node_yxs[e.child_id][1] # t.node_yxs[e.parent_id][1] + 1
    THEN Res(t, b, "TreeEditError")
  ELSE Res([t EXCEPT !.node_dict[e.parent_id].child_ids = Append(@, e.child_id)], b, NoExc)

ApplySetAsChild(t, b, e) ==
  IF e.parent_id \notin DOMAIN t.node_dict \/ e.child_id \notin DOMAIN t.node_dict
    THEN Res(t, b, "KeyError")
  ELSE IF PyIn(e.child_id, t.node_dict[e.parent_id].child_ids)
          \/ t.node_dict[e.child_id].parent_id = e.parent_id
    THEN Res(t, b, "TreeEditError")
  ELSE IF e.parent_id \notin DOMAIN t.node_yxs \/ e.child_id \notin DOMAIN t.node_yxs
    THEN Res(t, b, "KeyError")
  ELSE IF t.node_yxs[e.child_id][1] # t.node_yxs[e.parent_id][1] + 1
    THEN Res(t, b, "TreeEditError")
  ELSE LET d1 == [t.node_dict EXCEPT ![e.parent_id].child_ids = Append(@, e.child_id)]
           d2 == [d1 EXCEPT ![e.child_id].parent_id = e.parent_id]
       IN Res([t EXCEPT !.node_dict = d2], b, NoExc)

ApplyUnsetAsChild(t, b, e) ==
  IF e.parent_id \notin DOMAIN t.node_dict \/ e.child_id \notin DOMAIN t.node_dict
    THEN Res(t, b, "KeyError")
  ELSE IF ~PyIn(e.child_id, t.node_dict[e.parent_id].child_ids)
          \/ t.node_dict[e.child_id].parent_id # e.parent_id
    THEN Res(t, b, "TreeEditError")
  ELSE IF e.parent_id \notin DOMAIN t.node_yxs \/ e.child_id \notin DOMAIN t.node_yxs
    THEN Res(t, b, "KeyError")
  ELSE IF t.node_yxs[e.child_id][1] # t.node_yxs[e.parent_id][1] + 1
    THEN Res(t, b, "TreeEditError")
  ELSE LET d1 == [t.node_dict EXCEPT ![e.parent_id].child_ids = PyRemove(@, e.child_id)]
           d2 == [d1 EXCEPT ![e.child_id].parent_id = -1]
       IN Res([t EXCEPT !.node_dict = d2], b, NoExc)

\* the nodes whose index MoveNode shifts: layer[old_x + 1 : new_x] when moving
\* right, layer[new_x : old_x - 1] when moving left
MoveNodeShifted(layer, old_x, new_x) ==
  IF new_x > old_x THEN PySlice(layer, old_x + 1, new_x) ELSE PySlice(layer, new_x, old_x - 1)

\* the id MoveNode re-inserts and re-indexes: the loop of the move to the left
\* assigns "id = node.id", so after it id names the last node it visited
MoveNodeInsertedId(id, shifted, old_x, new_x) ==
  IF new_x > old_x \/ shifted = <<>> THEN id ELSE shifted[Len(shifted)].id

ApplyMoveNode(t, b, e) ==
  IF e.old_x = e.new_x THEN Res(t, b, NoExc)
  ELSE IF e.id \notin DOMAIN t.node_yxs THEN Res(t, b, "KeyError")
  ELSE IF t.node_yxs[e.id][2] # e.old_x THEN Res(t, b, "TreeEditError")
  ELSE LET p == PyPos(t.node_layers, t.node_yxs[e.id][1])
       IN IF p = 0 THEN Res(t, b, "IndexError")
          ELSE LET layer == t.node_layers[p]
                   shifted == MoveNodeShifted(layer, e.old_x, e.new_x)
                   ids == [k \in 1..Len(shifted) |-> shifted[k].id]
                   sh == ShiftIndex(t.node_yxs, ids, 0, IF e.new_x > e.old_x THEN -1 ELSE 1)
                   t1 == [t EXCEPT !.node_yxs = sh.yxs]
                   id == MoveNodeInsertedId(e.id, shifted, e.old_x, e.new_x)
               IN IF sh.exc # NoExc THEN Res(t1, b, sh.exc)
                  ELSE IF PyPos(layer, e.old_x) = 0 THEN Res(t1, b, "IndexError")
                  ELSE LET t2 == [t1 EXCEPT !.node_layers[p] = PyDel(layer, e.old_x)]
                       IN IF id \notin DOMAIN t.node_dict THEN Res(t2, b, "KeyError")
                          ELSE LET t3 == [t2 EXCEPT !.node_layers[p] = PyInsert(@, e.new_x, LiveCell(id))]
                               IN IF id \notin DOMAIN t3.node_yxs THEN Res(t3, b, "KeyError")
                                  ELSE Res([t3 EXCEPT !.node_yxs[id] = <<@[1], e.new_x>>], b, NoExc)

ApplyModifyCard(t, b, e) ==
  IF e.id \notin DOMAIN t.node_dict THEN Res(t, b, "KeyError")
  ELSE Res([t EXCEPT !.node_dict[e.id].card = e.new_card], b, NoExc)

ApplyModifyGenerationIndex(t, b, e) ==
  IF e.id \notin DOMAIN t.node_yxs THEN Res(t, b, "KeyError")
  ELSE IF PyPos(gi_defs, e.gi_index) = 0 THEN Res(t, b, "IndexError")
  ELSE Res(t, e.new_gi - gi_defs[PyPos(gi_defs, e.gi_index)] - t.node_yxs[e.id][1], NoExc)

\* the match statement of _apply_edit; a value no case matches (None) falls
\* through it and changes nothing
_apply_edit(t, b, e) ==
  CASE e.type = "NewRightmostNode" -> ApplyNewRightmostNode(t, b, e)
    [] e.type = "DeleteRightmostNode" -> ApplyDeleteRightmostNode(t, b, e)
    [] e.type = "NewLayer" -> ApplyNewLayer(t, b, e)
    [] e.type = "DeleteLayer" -> ApplyDeleteLayer(t, b, e)
    [] e.type = "SetAsChild" -> ApplySetAsChild(t, b, e)
    [] e.type = "UnsetAsChild" -> ApplyUnsetAsChild(t, b, e)
    [] e.type = "MoveNode" -> ApplyMoveNode(t, b, e)
    [] e.type = "ModifyCard" -> ApplyModifyCard(t, b, e)
    [] e.type = "ModifyGenerationIndex" -> ApplyModifyGenerationIndex(t, b, e)
    [] OTHER -> Res(t, b, NoExc)

\* apply_edits as a transaction: when an edit raises, the tree and the base
\* are those the sequence started from
RECURSIVE RunOrRestore(_, _, _, _)
RunOrRestore(t0, b0, r, edits) ==
  IF r.exc # NoExc THEN Res(t0, b0, r.exc)
  ELSE IF edits = <<>> THEN r
  ELSE RunOrRestore(t0, b0, _apply_edit(r.tree, r.base, Head(edits)), Tail(edits))

apply_edits_all_or_nothing(t, b, edits) == RunOrRestore(t, b, Res(t, b, NoExc), edits)

\* Tree.apply_edits on a list: the edits in order, up to the first exception
RECURSIVE apply_edits(_, _, _)
RECURSIVE ApplyRest(_, _)
\* after one edit with result r: its exception propagates, else the loop
\* goes on with the rest
ApplyRest(r, rest) ==
  IF r.exc # NoExc THEN r ELSE apply_edits(r.tree, r.base, rest)

apply_edits(t, b, edits) ==
  IF edits = <<>> THEN Res(t, b, NoExc)
  ELSE ApplyRest(_apply_edit(t, b, Head(edits)), Tail(edits))

(***************************************************************************)
(* The composite edit builders.  A builder returns the edit list, the      *)
(* exception that stopped it (NoExc when it returned) and the id counter,  *)
(* which obtain_id advances.                                               *)
(***************************************************************************)
Built(edits, exc, last_id) == [edits |-> edits, exc |-> exc, last_id |-> last_id]

\* Tree.compute_layer_gi(y)[gi_index]
compute_layer_gi(b, y, gi_index) == b + y + gi_defs[PyPos(gi_defs, gi_index)]

\* the loop "while ref_x >= 0 and <the node at ref_x is skipped>: ref_x -= 1"
\* of _compute_new_child_x (children = TRUE: nodes without children are
\* skipped) and _compute_new_parent_x (nodes without parent are skipped)
RECURSIVE ScanLeft(_, _, _, _)
ScanLeft(t, y, ref_x, children) ==
  IF ref_x < 0 THEN [ref_x |-> ref_x, exc |-> NoExc]
  ELSE IF PyPos(t.node_layers, y) = 0 THEN [ref_x |-> ref_x, exc |-> "IndexError"]
  ELSE LET layer == t.node_layers[PyPos(t.node_layers, y)]
       IN IF PyPos(layer, ref_x) = 0 THEN [ref_x |-> ref_x, exc |-> "IndexError"]
          ELSE LET n == CellNode(t, layer[PyPos(layer, ref_x)])
                   skip == IF children THEN n.child_ids = <<>> ELSE n.parent_id < 0
               IN IF skip THEN ScanLeft(t, y, ref_x - 1, children)
                  ELSE [ref_x |-> ref_x, exc |-> NoExc]

\* max of a non-empty list of integers
SeqMax(xs) == CHOOSE m \in {xs[k] : k \in 1..Len(xs)} : \A k \in 1..Len(xs) : xs[k] <= m

\* Tree._compute_new_child_x(id), for an id of _node_yxs
_compute_new_child_x(t, id) ==
  LET y == t.node_yxs[id][1]
      sc == ScanLeft(t, y, t.node_yxs[id][2], TRUE)
  IN IF sc.exc # NoExc THEN [x |-> 0, exc |-> sc.exc]
     ELSE IF sc.ref_x = -1 THEN [x |-> 0, exc |-> NoExc]
     ELSE IF PyPos(t.node_layers, y) = 0 THEN [x |-> 0, exc |-> "IndexError"]
     ELSE LET layer == t.node_layers[PyPos(t.node_layers, y)]
          IN IF PyPos(layer, sc.ref_x) = 0 THEN [x |-> 0, exc |-> "IndexError"]
             ELSE LET ref_child_ids == CellNode(t, layer[PyPos(layer, sc.ref_x)]).child_ids
                  IN IF \E k \in 1..Len(ref_child_ids) : ref_child_ids[k] \notin DOMAIN t.node_yxs
                       THEN [x |-> 0, exc |-> "KeyError"]
                     ELSE IF ref_child_ids = <<>> THEN [x |-> 0, exc |-> "ValueError"]
                     ELSE [x |-> SeqMax([k \in 1..Len(ref_child_ids) |-> t.node_yxs[ref_child_ids[k]][2]]) + 1,
                           exc |-> NoExc]

\* Tree._compute_new_parent_x(id), for an id of _node_yxs
_compute_new_parent_x(t, id) ==
  LET y == t.node_yxs[id][1]
      sc == ScanLeft(t, y, t.node_yxs[id][2], FALSE)
  IN IF sc.exc # NoExc THEN [x |-> 0, exc |-> sc.exc]
     ELSE IF sc.ref_x = -1 THEN [x |-> 0, exc |-> NoExc]
     ELSE IF PyPos(t.node_layers, y) = 0 THEN [x |-> 0, exc |-> "IndexError"]
     ELSE LET layer == t.node_layers[PyPos(t.node_layers, y)]
          IN IF PyPos(layer, sc.ref_x) = 0 THEN [x |-> 0, exc |-> "IndexError"]
             ELSE LET ref_parent_id == CellNode(t, layer[PyPos(layer, sc.ref_x)]).parent_id
                  IN IF ref_parent_id \notin DOMAIN t.node_yxs THEN [x |-> 0, exc |-> "KeyError"]
                     ELSE [x |-> t.node_yxs[ref_parent_id][2] + 1, exc |-> NoExc]

\* edits_for_new_node without its "y = 0": the node of a new first layer is
\* appended at index y = -1, the last layer
edits_for_new_node_keeps_y(t, y, card) ==
  LET id == t.last_id + 1
  IN IF y < 0 THEN Built(<<NewLayer(0), NewRightmostNode(y, id, card)>>, NoExc, id)
     ELSE IF y >= nlayers(t)
       THEN Built(<<NewLayer(nlayers(t)), NewRightmostNode(nlayers(t), id, card)>>, NoExc, id)
     ELSE Built(<<NewRightmostNode(y, id, card)>>, NoExc, id)

\* edits_for_new_node that puts the new layer of y >= self.nlayers() at index
\* 0 instead of after the last layer
edits_for_new_node_prepends(t, y, card) ==
  LET id == t.last_id + 1
  IN IF y < 0 \/ y >= nlayers(t)
       THEN Built(<<NewLayer(0), NewRightmostNode(0, id, card)>>, NoExc, id)
     ELSE Built(<<NewRightmostNode(y, id, card)>>, NoExc, id)

edits_for_new_node(t, y, card) ==
  LET id == t.last_id + 1
  IN IF y < 0 THEN Built(<<NewLayer(0), NewRightmostNode(0, id, card)>>, NoExc, id)
     ELSE IF y >= nlayers(t)
       THEN Built(<<NewLayer(nlayers(t)), NewRightmostNode(nlayers(t), id, card)>>, NoExc, id)
     ELSE Built(<<NewRightmostNode(y, id, card)>>, NoExc, id)

\* edits_for_delete_node without the loop over node.child_ids: no
\* UnsetAsChild for the child links
edits_for_delete_node_keeps_child_links(t, id) ==
  IF id \notin DOMAIN t.node_dict THEN Built(<<>>, "KeyError", t.last_id)
  ELSE LET node == t.node_dict[id]
           unset_parent == IF node.parent_id >= 0 THEN <<UnsetAsChild(node.parent_id, id)>> ELSE <<>>
       IN IF id \notin DOMAIN t.node_yxs THEN Built(<<>>, "KeyError", t.last_id)
          ELSE LET y == t.node_yxs[id][1]
                   x == t.node_yxs[id][2]
               IN IF PyPos(t.node_layers, y) = 0 THEN Built(<<>>, "IndexError", t.last_id)
                  ELSE LET new_x == Len(t.node_layers[PyPos(t.node_layers, y)])
                       IN Built(unset_parent
                                  \o <<MoveNode(id, x, new_x), DeleteRightmostNode(y, id, node.card)>>,
                                NoExc, t.last_id)

edits_for_delete_node(t, id) ==
  IF id \notin DOMAIN t.node_dict THEN Built(<<>>, "KeyError", t.last_id)
  ELSE LET node == t.node_dict[id]
           unset_parent == IF node.parent_id >= 0 THEN <<UnsetAsChild(node.parent_id, id)>> ELSE <<>>
           unset_children == [k \in 1..Len(node.child_ids) |-> UnsetAsChild(id, node.child_ids[k])]
       IN IF id \notin DOMAIN t.node_yxs THEN Built(<<>>, "KeyError", t.last_id)
          ELSE LET y == t.node_yxs[id][1]
                   x == t.node_yxs[id][2]
               IN IF PyPos(t.node_layers, y) = 0 THEN Built(<<>>, "IndexError", t.last_id)
                  ELSE LET new_x == Len(t.node_layers[PyPos(t.node_layers, y)])
                       IN Built(unset_parent \o unset_children
                                  \o <<MoveNode(id, x, new_x), DeleteRightmostNode(y, id, node.card)>>,
                                NoExc, t.last_id)

edits_for_set_as_child(t, parent_id, child_id) ==
  Built(<<SetAsChild(parent_id, child_id)>>, NoExc, t.last_id)

edits_for_new_parent(t, child_id, card) ==
  IF child_id \notin DOMAIN t.node_yxs THEN Built(<<>>, "KeyError", t.last_id)
  ELSE LET px == _compute_new_parent_x(t, child_id)
           child_y == t.node_yxs[child_id][1]
           parent_id == t.last_id + 1
       IN IF px.exc # NoExc THEN Built(<<>>, px.exc, t.last_id)
          ELSE IF child_y = 0
            THEN Built(<<NewLayer(0), NewRightmostNode(0, parent_id, card),
                         MoveNode(parent_id, 0, px.x), SetAsChild(parent_id, child_id)>>,
                       NoExc, parent_id)
          ELSE IF PyPos(t.node_layers, child_y - 1) = 0 THEN Built(<<>>, "IndexError", t.last_id)
          ELSE LET old_x == Len(t.node_layers[PyPos(t.node_layers, child_y - 1)])
               IN Built(<<NewRightmostNode(child_y - 1, parent_id, card),
                          MoveNode(parent_id, old_x, px.x), SetAsChild(parent_id, child_id)>>,
                        NoExc, parent_id)

edits_for_new_child(t, parent_id, card) ==
  IF parent_id \notin DOMAIN t.node_yxs THEN Built(<<>>, "KeyError", t.last_id)
  ELSE LET cx == _compute_new_child_x(t, parent_id)
           parent_y == t.node_yxs[parent_id][1]
           child_id == t.last_id + 1
       IN IF cx.exc # NoExc THEN Built(<<>>, cx.exc, t.last_id)
          ELSE IF parent_y = nlayers(t) - 1
            THEN Built(<<NewLayer(nlayers(t)), NewRightmostNode(nlayers(t), child_id, card),
                         MoveNode(child_id, 0, cx.x), SetAsChild(parent_id, child_id)>>,
                       NoExc, child_id)
          ELSE IF PyPos(t.node_layers, parent_y + 1) = 0 THEN Built(<<>>, "IndexError", t.last_id)
          ELSE LET old_x == Len(t.node_layers[PyPos(t.node_layers, parent_y + 1)])
               IN Built(<<NewRightmostNode(parent_y + 1, child_id, card),
                          MoveNode(child_id, old_x, cx.x), SetAsChild(parent_id, child_id)>>,
                        NoExc, child_id)

edits_for_set_card(t, id, card) ==
  IF id \notin DOMAIN t.node_dict THEN Built(<<>>, "KeyError", t.last_id)
  ELSE Built(<<ModifyCard(id, t.node_dict[id].card, card)>>, NoExc, t.last_id)

edits_for_set_gi(t, b, id, gi_index, gi) ==
  IF id \notin DOMAIN t.node_yxs THEN Built(<<>>, "KeyError", t.last_id)
  ELSE IF PyPos(gi_defs, gi_index) = 0 THEN Built(<<>>, "IndexError", t.last_id)
  ELSE Built(<<ModifyGenerationIndex(id, gi_index,
                  compute_layer_gi(b, t.node_yxs[id][1], gi_index), gi)>>, NoExc, t.last_id)

(***************************************************************************)
(* The session of gmui.Window: one tree, an undo stack and a redo stack of *)
(* edit lists.  Every handler records what it was asked (last), the state  *)
(* it started from (before) and the exception it ended with (raised).      *)
(***************************************************************************)
Snapshot ==
  [tree |-> tree, gi_base |-> gi_base, undo_stack |-> undo_stack, redo_stack |-> redo_stack]

Handler(op, id, y, card, edits) ==
  [op |-> op, id |-> id, y |-> y, card |-> card, edits |-> edits, n |-> last.n + 1]

Ids == DOMAIN tree.node_dict

\* Window._do(edits): apply the list, then push it on the undo stack; an
\* exception of apply_edits leaves the stacks as they were
_do(t, b, edits) ==
  CHOOSE d \in {[tree |-> r.tree, base |-> r.base, exc |-> r.exc,
                 undo_stack |-> IF r.exc = NoExc THEN Append(undo_stack, edits)
                                ELSE undo_stack,
                 redo_stack |-> redo_stack] : r \in {apply_edits(t, b, edits)}} : TRUE

\* a slot of the window: the builder runs on the tree, then _do
Slot(op, id, y, card, built) ==
  /\ last.n < MaxOps
  /\ \E bt \in {built} :
       /\ \E d \in {IF bt.exc = NoExc
                      THEN _do([tree EXCEPT !.last_id = bt.last_id], gi_base, bt.edits)
                      ELSE [tree |-> [tree EXCEPT !.last_id = bt.last_id],
                            base |-> gi_base, exc |-> bt.exc,
                            undo_stack |-> undo_stack, redo_stack |-> redo_stack]} :
            /\ tree' = d.tree
            /\ gi_base' = d.base
            /\ undo_stack' = d.undo_stack
            /\ redo_stack' = d.redo_stack
            /\ raised' = d.exc
       /\ last' = Handler(op, id, y, card, bt.edits)
  /\ before' = Snapshot
  /\ UNCHANGED <<origin, applied, painting, instances, text>>

\* _canvas_new_box_requested_slot(index_y): the canvas offers the stripes
\* -1 .. nlayers
DoNewNode ==
  \E y \in -1..nlayers(tree) :
    /\ tree.last_id < MaxId
    /\ Slot("new_node", -1, y, DefaultCard, edits_for_new_node(tree, y, DefaultCard))

\* _canvas_new_child_requested_slot(id)
DoNewChild ==
  \E id \in Ids :
    /\ tree.last_id < MaxId
    /\ Slot("new_child", id, -1, DefaultCard, edits_for_new_child(tree, id, DefaultCard))

\* edits_for_new_parent(child_id, card) through _do
DoNewParent ==
  \E id \in Ids :
    /\ tree.last_id < MaxId
    /\ Slot("new_parent", id, -1, DefaultCard, edits_for_new_parent(tree, id, DefaultCard))

\* _info_dock_card_deleted_slot()
DoDeleteNode ==
  \E id \in Ids : Slot("delete_node", id, -1, DefaultCard, edits_for_delete_node(tree, id))

\* _info_dock_card_edited_slot(card)
DoSetCard ==
  \E id \in Ids, card \in Cards :
    Slot("set_card", id, -1, card, edits_for_set_card(tree, id, card))

\* edits_for_set_gi(id, gi_index, gi) through _do
DoSetGi ==
  \E id \in Ids, gi_index \in 0..(Len(gi_defs) - 1), gi \in GiValues :
    Slot("set_gi", id, gi_index, gi, edits_for_set_gi(tree, gi_base, id, gi_index, gi))

\* edits_for_set_as_child(parent_id, child_id) through _do
DoSetAsChild ==
  \E parent_id \in Ids, child_id \in Ids :
    Slot("set_as_child", parent_id, child_id, DefaultCard,
         edits_for_set_as_child(tree, parent_id, child_id))

\* Window._undo()
Undo ==
  /\ last.n < MaxOps + MaxUndoRedo
  /\ undo_stack # <<>>
  /\ \E edits \in {undo_stack[Len(undo_stack)]} :
       \E r \in {apply_edits(tree, gi_base, reversed_edits(edits))} :
        /\ tree' = r.tree
        /\ gi_base' = r.base
        /\ undo_stack' = SubSeq(undo_stack, 1, Len(undo_stack) - 1)
        /\ redo_stack' = IF r.exc = NoExc THEN Append(redo_stack, edits) ELSE redo_stack
        /\ raised' = r.exc
        /\ last' = Handler("undo", -1, -1, DefaultCard, edits)
  /\ before' = Snapshot
  /\ UNCHANGED <<origin, applied, painting, instances, text>>

\* Window._redo()
Redo ==
  /\ last.n < MaxOps + MaxUndoRedo
  /\ redo_stack # <<>>
  /\ \E edits \in {redo_stack[Len(redo_stack)]} :
       \E r \in {apply_edits(tree, gi_base, edits)} :
        /\ tree' = r.tree
        /\ gi_base' = r.base
        /\ redo_stack' = SubSeq(redo_stack, 1, Len(redo_stack) - 1)
        /\ undo_stack' = IF r.exc = NoExc THEN Append(undo_stack, edits) ELSE undo_stack
        /\ raised' = r.exc
        /\ last' = Handler("redo", -1, -1, DefaultCard, edits)
  /\ before' = Snapshot
  /\ UNCHANGED <<origin, applied, painting, instances, text>>

\* Window.__init__: an empty tree and empty stacks
Init ==
  /\ tree = EmptyTree
  /\ gi_base = 1
  /\ undo_stack = <<>>
  /\ redo_stack = <<>>
  /\ raised = NoExc
  /\ last = [op |-> "init", id |-> -1, y |-> -1, card |-> DefaultCard, edits |-> <<>>, n |-> 0]
  /\ before = [tree |-> EmptyTree, gi_base |-> 1, undo_stack |-> <<>>, redo_stack |-> <<>>]
  /\ origin = EmptyTree
  /\ applied = <<>>
  /\ painting = EmptyDict
  /\ instances = <<>>
  /\ text = <<>>

Next ==
  \/ DoNewNode
  \/ DoNewChild
  \/ DoNewParent
  \/ DoDeleteNode
  \/ DoSetCard
  \/ DoSetGi
  \/ DoSetAsChild
  \/ Undo
  \/ Redo

Spec == Init /\ [][Next]_vars

(***************************************************************************)
(* Decoded forests.  from_str_repr registers the names of the text layer   *)
(* by layer, left to right, with ids 0, 1, 2, ... and then sets parent_id  *)
(* and child_ids from the child lists.  A forest text is given here by the *)
(* widths of its layers and, for each node, the position of its parent in  *)
(* the layer above (0: no node names it as a child); child lists name the  *)
(* children left to right.                                                 *)
(***************************************************************************)
RECURSIVE Offset(_, _)
\* the number of names in the layers before layer y (1-based)
Offset(widths, y) == IF y <= 1 THEN 0 ELSE Offset(widths, y - 1) + widths[y - 1]

\* the id of the x-th name of layer y (both 1-based)
ForestId(widths, y, x) == Offset(widths, y) + x - 1

ForestParent(widths, par, y, x) ==
  IF par[y][x] = 0 THEN -1 ELSE ForestId(widths, y - 1, par[y][x])

ForestChildren(widths, par, y, x) ==
  IF y = Len(widths) THEN <<>>
  ELSE LET ks == SelectSeq([k \in 1..widths[y + 1] |-> k], LAMBDA k : par[y + 1][k] = x)
       IN [i \in 1..Len(ks) |-> ForestId(widths, y + 1, ks[i])]

\* the store from_str_repr builds
Forest(widths, par) ==
  LET n == Offset(widths, Len(widths) + 1)
      yx(id) == CHOOSE p \in {<<y, x>> : y \in 1..Len(widths), x \in 1..MaxForestWidth + 1} :
                  p[2] <= widths[p[1]] /\ ForestId(widths, p[1], p[2]) = id
  IN [last_id |-> n - 1,
      node_dict |-> [id \in 0..(n - 1) |->
                      [card |-> DefaultCard,
                       parent_id |-> ForestParent(widths, par, yx(id)[1], yx(id)[2]),
                       child_ids |-> ForestChildren(widths, par, yx(id)[1], yx(id)[2])]],
      node_layers |-> [y \in 1..Len(widths) |->
                        [x \in 1..widths[y] |-> LiveCell(ForestId(widths, y, x))]],
      node_yxs |-> [id \in 0..(n - 1) |-> <<yx(id)[1] - 1, yx(id)[2] - 1>>]]

\* the layer widths of the forest texts within the bounds
ForestWidths == UNION {[1..l -> 1..MaxForestWidth] : l \in 0..MaxForestLayers}

\* the parent positions a layer may have: its children are named by the
\* nodes of the layer above in their left-to-right order
LayerParents(widths, y) ==
  IF y = 1 THEN {[x \in 1..widths[1] |-> 0]}
  ELSE {f \in [1..widths[y] -> 0..widths[y - 1]] :
          \A i \in 1..widths[y], j \in 1..widths[y] :
            (i < j /\ f[i] # 0 /\ f[j] # 0) => f[i] <= f[j]}

RECURSIVE ForestParents(_, _)
ForestParents(widths, y) ==
  IF y = 0 THEN {<<>>}
  ELSE {Append(ps, f) : ps \in ForestParents(widths, y - 1), f \in LayerParents(widths, y)}

(***************************************************************************)
(* The edit engine on its own: atomic edits applied one at a time, through *)
(* apply_edits, to a decoded forest.  applied is the run of edits that     *)
(* applied without error since the store was origin; an edit that raises   *)
(* ends the run and the store it leaves is the origin of the next one.     *)
(***************************************************************************)
ApplyOne(e) ==
  /\ last.n < MaxEdits
  /\ \E r \in {apply_edits(tree, gi_base, <<e>>)} :
       /\ tree' = r.tree
       /\ raised' = r.exc
       /\ applied' = IF r.exc = NoExc THEN Append(applied, e) ELSE <<>>
       /\ origin' = IF r.exc = NoExc THEN origin ELSE r.tree
  /\ last' = Handler("edit", -1, -1, DefaultCard, <<e>>)
  /\ before' = Snapshot
  /\ UNCHANGED <<gi_base, undo_stack, redo_stack, painting, instances, text>>

\* the layer indices and the positions an edit may name
LayerIndices == 0..(nlayers(tree) - 1)

Positions == 0..MaxForestWidth

EditNewLayer == \E y \in 0..nlayers(tree) : ApplyOne(NewLayer(y))

EditDeleteLayer == \E y \in LayerIndices : ApplyOne(DeleteLayer(y))

\* the id of a new node comes from obtain_id
EditNewRightmostNode ==
  \E y \in LayerIndices, card \in Cards :
    /\ tree.last_id < MaxId
    /\ ApplyOne(NewRightmostNode(y, tree.last_id + 1, card))

EditDeleteRightmostNode ==
  \E y \in LayerIndices, id \in Ids, card \in Cards :
    ApplyOne(DeleteRightmostNode(y, id, card))

EditSetAsChild == \E p \in Ids, c \in Ids : ApplyOne(SetAsChild(p, c))

EditUnsetAsChild == \E p \in Ids, c \in Ids : ApplyOne(UnsetAsChild(p, c))

EditMoveNode ==
  \E id \in Ids, old_x \in Positions, new_x \in Positions :
    ApplyOne(MoveNode(id, old_x, new_x))

\* old_card is the card the node has, as edits_for_set_card reads it
EditModifyCard ==
  \E id \in Ids, card \in Cards :
    ApplyOne(ModifyCard(id, tree.node_dict[id].card, card))

InitEdits ==
  /\ \E widths \in ForestWidths :
       \E par \in ForestParents(widths, Len(widths)) :
         /\ Forest(widths, par).last_id <= MaxId
         /\ tree = Forest(widths, par)
         /\ origin = Forest(widths, par)
         /\ before = [tree |-> Forest(widths, par), gi_base |-> 1,
                      undo_stack |-> <<>>, redo_stack |-> <<>>]
  /\ gi_base = 1
  /\ undo_stack = <<>>
  /\ redo_stack = <<>>
  /\ raised = NoExc
  /\ last = [op |-> "init", id |-> -1, y |-> -1, card |-> DefaultCard, edits |-> <<>>, n |-> 0]
  /\ applied = <<>>
  /\ painting = EmptyDict
  /\ instances = <<>>
  /\ text = <<>>

NextEdits ==
  \/ EditNewLayer
  \/ EditDeleteLayer
  \/ EditNewRightmostNode
  \/ EditDeleteRightmostNode
  \/ EditSetAsChild
  \/ EditUnsetAsChild
  \/ EditMoveNode
  \/ EditModifyCard

SpecEdits == InitEdits /\ [][NextEdits]_vars

(***************************************************************************)
(* The layout, compute_painting_xs.  Coordinates are floats in the code;   *)
(* here they are integers counted in units of 1 / PaintUnit, which is      *)
(* exact as long as every mean is taken over one to four children and a    *)
(* tree has at most five layers (all the values are then multiples of      *)
(* 1/2 * 1/12^4).  The rounding of the floats is not modelled.             *)
(***************************************************************************)
PaintUnit == 2 * 12 * 12 * 12 * 12

\* SUBTREE_SPACING = 1.5
SUBTREE_SPACING == (3 * PaintUnit) \div 2

RECURSIVE SeqSum(_)
SeqSum(q) == IF q = <<>> THEN 0 ELSE q[1] + SeqSum(Tail(q))

RECURSIVE SeqMin(_)
SeqMin(q) == IF Len(q) = 1 THEN q[1] ELSE Min(q[1], SeqMin(Tail(q)))

\* xs, mods, lcons and rcons of compute_painting_xs
PaintStart(t) ==
  [xs |-> [id \in DOMAIN t.node_dict |-> 0],
   mods |-> [id \in DOMAIN t.node_dict |-> 0],
   lcons |-> [id \in DOMAIN t.node_dict |-> <<>>],
   rcons |-> [id \in DOMAIN t.node_dict |-> <<>>]]

update_contour(t, L, id) ==
  LET head == <<L.xs[id]>>
      child_ids == t.node_dict[id].child_ids
  IN IF child_ids = <<>>
       THEN [L EXCEPT !.lcons[id] = head, !.rcons[id] = head]
       ELSE LET lsub_lcon == L.lcons[child_ids[1]]
                lsub_rcon == L.rcons[child_ids[1]]
                rsub_lcon == L.lcons[child_ids[Len(child_ids)]]
                rsub_rcon == L.rcons[child_ids[Len(child_ids)]]
            IN [L EXCEPT
                 !.lcons[id] = head \o lsub_lcon \o PySliceFrom(rsub_lcon, Len(lsub_lcon)),
                 !.rcons[id] = head \o rsub_rcon \o PySliceFrom(lsub_rcon, Len(rsub_rcon))]

compare_and_mod(t, L, lid, rid) ==
  LET lnode == t.node_dict[lid]
      rnode == t.node_dict[rid]
      spacing == IF \/ lnode.parent_id # rnode.parent_id
                    \/ (lnode.parent_id < 0 /\ rnode.parent_id < 0)
                   THEN SUBTREE_SPACING ELSE PaintUnit
      n == Min(Len(L.rcons[lid]), Len(L.lcons[rid]))
      min_dist == SeqMin([i \in 1..n |-> L.lcons[rid][i] - L.rcons[lid][i]])
      mod == IF min_dist < spacing THEN spacing - min_dist ELSE 0
  IN [L EXCEPT !.mods[rid] = mod,
               !.lcons[rid] = [i \in 1..Len(L.lcons[rid]) |-> L.lcons[rid][i] + mod],
               !.rcons[rid] = [i \in 1..Len(L.rcons[rid]) |-> L.rcons[rid][i] + mod]]

\* the first loop over a layer in move_nodes: center over the children, then
\* the contour
RECURSIVE CenterLayer(_, _, _, _)
CenterLayer(t, L, layer, k) ==
  IF k > Len(layer) THEN L
  ELSE LET node == CellNode(t, layer[k])
           id == layer[k].id
           child_modded_xs == [i \in 1..Len(node.child_ids) |->
                                L.xs[node.child_ids[i]] + L.mods[node.child_ids[i]]]
           L1 == IF node.child_ids # <<>>
                   THEN [L EXCEPT !.xs[id] = SeqSum(child_modded_xs) \div Len(child_modded_xs)]
                   ELSE L
       IN CenterLayer(t, update_contour(t, L1, id), layer, k + 1)

\* the while loop over the adjacent pairs of a layer in move_nodes
RECURSIVE CompareLayer(_, _, _, _)
CompareLayer(t, L, layer, rx) ==
  IF rx > Len(layer) THEN L
  ELSE CompareLayer(t, compare_and_mod(t, L, layer[rx - 1].id, layer[rx].id), layer, rx + 1)

\* the loop over reversed(range(len(layers))) in move_nodes, at layer y
RECURSIVE SetMods(_, _, _)
SetMods(t, L, y) ==
  IF y < 1 THEN L
  ELSE SetMods(t, CompareLayer(t, CenterLayer(t, L, t.node_layers[y], 1), t.node_layers[y], 2),
               y - 1)

\* AddToMods without "child.mod += mod": the shift of a node does not reach
\* its children
AddToMods_adds_nothing(mods, child_ids, k, m) == mods

RECURSIVE AddToMods(_, _, _, _)
AddToMods(mods, child_ids, k, m) ==
  IF k > Len(child_ids) THEN mods
  ELSE AddToMods([mods EXCEPT ![child_ids[k]] = @ + m], child_ids, k + 1, m)

\* the second loop of move_nodes: every mod goes into x and on to the children
RECURSIVE ApplyMods(_, _, _, _)
ApplyMods(t, L, y, x) ==
  IF y > Len(t.node_layers) THEN L
  ELSE IF x > Len(t.node_layers[y]) THEN ApplyMods(t, L, y + 1, 1)
  ELSE LET node == CellNode(t, t.node_layers[y][x])
           id == t.node_layers[y][x].id
           m == L.mods[id]
           mods1 == AddToMods(L.mods, node.child_ids, 1, m)
       IN ApplyMods(t, [L EXCEPT !.xs[id] = @ + m, !.mods = [mods1 EXCEPT ![id] = 0]], y, x + 1)

move_nodes(t, L) == ApplyMods(t, SetMods(t, L, Len(t.node_layers)), 1, 1)

\* the initial x and contour of the nodes of the last layer
RECURSIVE SeedLastLayer(_, _, _)
SeedLastLayer(t, L, k) ==
  LET layer == t.node_layers[Len(t.node_layers)]
  IN IF k > Len(layer) THEN L
     ELSE LET id == layer[k].id
              L1 == [L EXCEPT !.xs[id] = (k - 1) * PaintUnit + PaintUnit \div 2]
          IN SeedLastLayer(t, update_contour(t, L1, id), k + 1)

\* compute_painting_xs with "len(self._node_layers) <= 1" for "< 1": a tree
\* of one layer gets no coordinates
compute_painting_xs_skips_single_layer(t) ==
  IF Len(t.node_layers) <= 1 THEN EmptyDict
  ELSE move_nodes(t, move_nodes(t, SeedLastLayer(t, PaintStart(t), 1))).xs

compute_painting_xs(t) ==
  IF Len(t.node_layers) < 1 THEN EmptyDict
  ELSE move_nodes(t, move_nodes(t, SeedLastLayer(t, PaintStart(t), 1))).xs

(***************************************************************************)
(* The canvas paints a decoded forest: it asks the tree for the            *)
(* coordinates of its nodes.                                               *)
(***************************************************************************)
Paint ==
  /\ last.op = "init"
  /\ painting' = compute_painting_xs(tree)
  /\ last' = Handler("paint", -1, -1, DefaultCard, <<>>)
  /\ before' = Snapshot
  /\ UNCHANGED <<tree, gi_base, undo_stack, redo_stack, raised, origin, applied, instances, text>>

InitLayout ==
  /\ \E widths \in ForestWidths :
       \E par \in ForestParents(widths, Len(widths)) :
         /\ tree = Forest(widths, par)
         /\ origin = Forest(widths, par)
         /\ before = [tree |-> Forest(widths, par), gi_base |-> 1,
                      undo_stack |-> <<>>, redo_stack |-> <<>>]
  /\ gi_base = 1
  /\ undo_stack = <<>>
  /\ redo_stack = <<>>
  /\ raised = NoExc
  /\ last = [op |-> "init", id |-> -1, y |-> -1, card |-> DefaultCard, edits |-> <<>>, n |-> 0]
  /\ applied = <<>>
  /\ painting = EmptyDict
  /\ instances = <<>>
  /\ text = <<>>

NextLayout == Paint

SpecLayout == InitLayout /\ [][NextLayout]_vars

(***************************************************************************)
(* The structural invariants of the store, read through its queries: the   *)
(* node map (node_dict), the layers and the reverse index (node_yxs).      *)
(***************************************************************************)
\* the cells of the layers, as 0-based (y, x) pairs
AllCells(t) ==
  UNION {{<<y - 1, x - 1>> : x \in 1..Len(t.node_layers[y])} : y \in 1..Len(t.node_layers)}

CellAt(t, yx) == t.node_layers[yx[1] + 1][yx[2] + 1]

\* the cells that hold the node map's object of id
CellsOf(t, id) == {yx \in AllCells(t) : CellAt(t, yx).live /\ CellAt(t, yx).id = id}

\* invariant 1: the reverse index is the inverse of the layers
PositionIndexOK(t) ==
  /\ \A id \in DOMAIN t.node_dict :
       id \in DOMAIN t.node_yxs /\ CellsOf(t, id) = {t.node_yxs[id]}
  /\ \A yx \in AllCells(t) : CellAt(t, yx).live

\* invariant 2: child lists and parent ids say the same
RelationOK(t) ==
  \A p \in DOMAIN t.node_dict, c \in DOMAIN t.node_dict :
    PyIn(c, t.node_dict[p].child_ids) <=> t.node_dict[c].parent_id = p

\* invariant 3: a child is exactly one layer below its parent
AdjacencyOK(t) ==
  \A p \in DOMAIN t.node_dict, c \in DOMAIN t.node_dict :
    PyIn(c, t.node_dict[p].child_ids) =>
      /\ p \in DOMAIN t.node_yxs
      /\ c \in DOMAIN t.node_yxs
      /\ t.node_yxs[c][1] = t.node_yxs[p][1] + 1

\* invariant 4: no layer is empty
NoEmptyLayer(t) == \A y \in 1..Len(t.node_layers) : Len(t.node_layers[y]) > 0

\* invariant 5: a child list runs left to right
ChildOrderOK(t) ==
  \A p \in DOMAIN t.node_dict :
    LET ch == t.node_dict[p].child_ids
    IN \A i \in 1..Len(ch), j \in 1..Len(ch) :
         i < j =>
           /\ ch[i] \in DOMAIN t.node_yxs
           /\ ch[j] \in DOMAIN t.node_yxs
           /\ t.node_yxs[ch[i]][2] < t.node_yxs[ch[j]][2]

WellFormed(t) ==
  /\ PositionIndexOK(t)
  /\ RelationOK(t)
  /\ AdjacencyOK(t)
  /\ NoEmptyLayer(t)
  /\ ChildOrderOK(t)

\* the queryable fields of a store: everything but the id counter
Queryable(t) ==
  [node_dict |-> t.node_dict, node_layers |-> t.node_layers, node_yxs |-> t.node_yxs]

\* the handler that just ended ran one of these builders and applied its
\* sequence without error
Performed(ops) == last.op \in ops /\ raised = NoExc

(***************************************************************************)
(* Properties of the session.                                              *)
(***************************************************************************)
\* C2: invariant 1 (position index).  After a composite operation built by
\* edits_for_new_node, edits_for_new_child, edits_for_new_parent,
\* edits_for_delete_node, edits_for_set_card or edits_for_set_gi on a store
\* that satisfies the five invariants and applied without error, every id of
\* the node map has a reverse-index entry equal to the one cell it occupies,
\* and every cell holds a node of the node map.
C2_PositionIndex ==
  (/\ Performed({"new_node", "new_child", "new_parent", "delete_node", "set_card", "set_gi"})
   /\ WellFormed(before.tree))
    => PositionIndexOK(tree)

\* C3: invariant 2 (relation biconditional).  After a composite operation
\* applied without error on a store that satisfies the five invariants (new
\* parent being asked for a node that has no parent), c is in the child list
\* of p if and only if the parent id of c is p.
C3_RelationBiconditional ==
  (/\ Performed({"new_node", "new_child", "new_parent", "delete_node", "set_card", "set_gi",
                 "set_as_child"})
   /\ WellFormed(before.tree)
   /\ last.op = "new_parent" => before.tree.node_dict[last.id].parent_id < 0)
    => RelationOK(tree)

\* C5: invariant 5 (child order).  After a composite operation built by
\* edits_for_new_child, edits_for_new_parent, edits_for_set_as_child,
\* edits_for_delete_node or edits_for_new_node on a store that satisfies the
\* five invariants and applied without error, every child list is in the
\* left-to-right order of the children in their layer.
C5_ChildOrder ==
  (/\ Performed({"new_node", "new_child", "new_parent", "delete_node", "set_as_child"})
   /\ WellFormed(before.tree)
   /\ last.op = "new_parent" => before.tree.node_dict[last.id].parent_id < 0)
    => ChildOrderOK(tree)

CompositeOps ==
  {"new_node", "new_child", "new_parent", "delete_node", "set_card", "set_gi", "set_as_child"}

\* C6 as stated: invariant 4 (no empty layer).  After every composite
\* operation applied without error on a store without an empty layer,
\* delete node of the only node of a layer included, no layer is empty.
C6_NoEmptyLayer ==
  (Performed(CompositeOps) /\ NoEmptyLayer(before.tree)) => NoEmptyLayer(tree)

\* the layer the reverse index gives for the node that delete node was asked
\* to delete held one cell only
DeletedOnlyNodeOfLayer ==
  /\ last.op = "delete_node"
  /\ Len(before.tree.node_layers[before.tree.node_yxs[last.id][1] + 1]) = 1

\* C6, amended: after a composite operation applied without error on a store
\* without an empty layer, no layer is empty, unless the operation was delete
\* node asked for the only node of its layer (that layer stays, empty).
C6_NoEmptyLayerButDeleteOnly ==
  (Performed(CompositeOps) /\ NoEmptyLayer(before.tree) /\ ~DeletedOnlyNodeOfLayer)
    => NoEmptyLayer(tree)

\* a delete node that removed one of several nodes of a layer, after which
\* every layer still holds a node
C6_Witness ==
  /\ Performed({"delete_node"})
  /\ NoEmptyLayer(before.tree)
  /\ ~DeletedOnlyNodeOfLayer
  /\ nlayers(tree) > 0
  /\ NoEmptyLayer(tree)

\* C8: when a new composite operation is performed through Window._do, the
\* redo stack is empty afterwards.
C8_RedoClearedByDo ==
  Performed(CompositeOps) => redo_stack = <<>>

\* C9: undo of delete node.  When delete node was performed without error on
\* a tree satisfying the five invariants and undo follows, undo applies every
\* inverse edit without error and the tree is again the tree before the
\* deletion (ids, cards, positions, parent and child links).
C9_UndoDeleteRestores ==
  [][(/\ Performed({"delete_node"})
      /\ WellFormed(before.tree)
      /\ last'.op = "undo")
       => (raised' = NoExc /\ Queryable(tree') = Queryable(before.tree))]_vars

\* C10: ModifyGenerationIndex is invertible.  When set gi was performed
\* without error and undo follows, the shared generation-index base has the
\* value it had before set gi.
C10_UndoSetGiRestoresBase ==
  [][(Performed({"set_gi"}) /\ last'.op = "undo") => gi_base' = before.gi_base]_vars

(***************************************************************************)
(* Properties of the edit engine.                                          *)
(***************************************************************************)
\* C1: edit inversion.  When a run S of atomic edits applied without error
\* to a store A satisfying the five invariants and gave the store B, then
\* the inverses of the edits of S, taken in reverse order, apply to B
\* without error and give a store equal to A in node ids, cards, parent
\* ids, child lists, layers and (y, x) positions.
C1_EditInversion ==
  WellFormed(origin) =>
    LET r == apply_edits(tree, gi_base, reversed_edits(applied))
    IN r.exc = NoExc /\ Queryable(r.tree) = Queryable(origin)

\* C4: invariant 3 (layer adjacency).  After an atomic edit, NewLayer and
\* DeleteLayer at any index included, that applied without error on its own
\* to a store satisfying the five invariants, every child is exactly one
\* layer below its parent.
C4_AdjacencyAfterEdit ==
  (Performed({"edit"}) /\ WellFormed(before.tree)) => AdjacencyOK(tree)

(***************************************************************************)
(* Properties of the layout.                                               *)
(***************************************************************************)
\* the x distance the layout owes two adjacent nodes of a layer
RequiredSpacing(t, lid, rid) ==
  IF t.node_dict[lid].parent_id >= 0 /\ t.node_dict[lid].parent_id = t.node_dict[rid].parent_id
    THEN PaintUnit ELSE SUBTREE_SPACING

\* C7: layout no-overlap.  In the map returned by compute_painting_xs for a
\* decoded forest, for every layer and every adjacent pair (L, R) in
\* left-to-right order, x(R) - x(L) >= 1.0 if L and R share a parent and
\* x(R) - x(L) >= 1.5 otherwise.
C7_NoOverlap ==
  last.op = "paint" =>
    \A y \in 1..Len(tree.node_layers) :
      \A x \in 2..Len(tree.node_layers[y]) :
        LET lid == tree.node_layers[y][x - 1].id
            rid == tree.node_layers[y][x].id
        IN painting[rid] - painting[lid] >= RequiredSpacing(tree, lid, rid)

(***************************************************************************)
(* Properties of the undo and redo stacks.                                 *)
(***************************************************************************)
\* C11: undo/redo stack discipline.  A composite operation performed
\* without error pushes its sequence on the undo stack; undo removes the
\* top sequence of the undo stack and pushes that same sequence on the redo
\* stack; redo removes the top sequence of the redo stack and pushes it back
\* on the undo stack.  Every sequence taken off one stack by undo or redo
\* ends up on the other stack.
C11_StackDiscipline ==
  [][/\ (last'.op \in CompositeOps /\ raised' = NoExc)
          => undo_stack' = Append(undo_stack, last'.edits)
     /\ (last'.op = "undo")
          => (/\ last'.edits = undo_stack[Len(undo_stack)]
              /\ undo_stack' = SubSeq(undo_stack, 1, Len(undo_stack) - 1)
              /\ redo_stack' = Append(redo_stack, last'.edits))
     /\ (last'.op = "redo")
          => (/\ last'.edits = redo_stack[Len(redo_stack)]
              /\ redo_stack' = SubSeq(redo_stack, 1, Len(redo_stack) - 1)
              /\ undo_stack' = Append(undo_stack, last'.edits))]_vars

\* C12: undo followed immediately by redo is the identity.  When undo was
\* performed in a state B and redo follows immediately, the tree is again
\* the tree of B (ids, cards, relations, positions), the generation-index
\* base is that of B, and the undo stack is that of B, with the same
\* sequence on top.
C12_UndoRedoIdentity ==
  [][(last.op = "undo" /\ last'.op = "redo")
       => (/\ Queryable(tree') = Queryable(before.tree)
           /\ gi_base' = before.gi_base
           /\ undo_stack' = before.undo_stack)]_vars

(***************************************************************************)
(* Postconditions of the atomic edits.                                     *)
(***************************************************************************)
\* the ids of the nodes of a layer, left to right
LayerIds(layer) == [k \in 1..Len(layer) |-> layer[k].id]

\* the atomic edit that was just applied without error, on its own, to a
\* store satisfying the five invariants, was of this type
Edited(type) ==
  /\ Performed({"edit"})
  /\ last.edits[1].type = type
  /\ WellFormed(before.tree)

\* C13: MoveNode postcondition.  When MoveNode(id, old_x, new_x) with
\* old_x # new_x and both positions inside the layer of the node applied
\* without error, the node is at position new_x of its layer, the other
\* nodes of the layer kept their relative order, the layer holds the same
\* nodes as before, and the reverse index of every node of the layer is the
\* position the node occupies.
C13_MoveNodePostcondition ==
  (/\ Edited("MoveNode")
   /\ last.edits[1].old_x # last.edits[1].new_x
   /\ last.edits[1].new_x < Len(before.tree.node_layers[before.tree.node_yxs[last.edits[1].id][1] + 1]))
    => LET e == last.edits[1]
           y == before.tree.node_yxs[e.id][1]
           old == LayerIds(before.tree.node_layers[y + 1])
           new == LayerIds(tree.node_layers[y + 1])
       IN /\ Len(new) = Len(old)
          /\ new[e.new_x + 1] = e.id
          /\ SelectSeq(new, LAMBDA i : i # e.id) = SelectSeq(old, LAMBDA i : i # e.id)
          /\ \A x \in 1..Len(new) : tree.node_yxs[new[x]] = <<y, x - 1>>

\* the ids of the nodes of every layer, top to bottom
LayersIds(t) == [k \in 1..Len(t.node_layers) |-> LayerIds(t.node_layers[k])]

\* every node of the node map occupies a layer cell
EveryNodeInALayer(t) == \A id \in DOMAIN t.node_dict : CellsOf(t, id) # {}

\* every entry of the reverse index is the entry of A, with dy added to the
\* y of the nodes whose layer in A is from_y or below it
IndexShifted(A, B, dy, from_y) ==
  /\ DOMAIN B.node_yxs = DOMAIN A.node_yxs
  /\ \A id \in DOMAIN A.node_yxs :
       B.node_yxs[id] = IF A.node_yxs[id][1] >= from_y
                          THEN <<A.node_yxs[id][1] + dy, A.node_yxs[id][2]>>
                          ELSE A.node_yxs[id]

\* C14: NewLayer / DeleteLayer postcondition.  NewLayer(y) inserts an empty
\* layer at index y and increases by one the y of exactly the nodes of the
\* layers >= y; DeleteLayer(y) removes the layer at y, which is an empty
\* layer, and decreases by one the y of exactly the nodes of the layers > y;
\* after either edit every node of the node map occupies a layer cell.
C14_LayerEdits ==
  /\ Edited("NewLayer") =>
       /\ LayersIds(tree) = PyInsert(LayersIds(before.tree), last.edits[1].y, <<>>)
       /\ IndexShifted(before.tree, tree, 1, last.edits[1].y)
       /\ EveryNodeInALayer(tree)
  /\ Edited("DeleteLayer") =>
       /\ before.tree.node_layers[last.edits[1].y + 1] = <<>>
       /\ LayersIds(tree) = PyDel(LayersIds(before.tree), last.edits[1].y)
       /\ IndexShifted(before.tree, tree, -1, last.edits[1].y + 1)
       /\ EveryNodeInALayer(tree)

\* an atomic edit of this type was just applied, on its own, to a store
\* satisfying the five invariants; it may have raised
Attempted(type) ==
  /\ last.op = "edit"
  /\ last.edits[1].type = type
  /\ WellFormed(before.tree)

\* the relation (parent_id, child_id) is recorded in the store
Related(t, parent_id, child_id) == PyIn(child_id, t.node_dict[parent_id].child_ids)

\* the node child_id is exactly one layer below the node parent_id
OneLayerBelow(t, parent_id, child_id) ==
  t.node_yxs[child_id][1] = t.node_yxs[parent_id][1] + 1

C16_NoSecondParent ==
  (/\ Attempted("SetAsChild")
   /\ before.tree.node_dict[last.edits[1].child_id].parent_id >= 0)
    => (raised # NoExc /\ tree.node_dict = before.tree.node_dict)

\* C17: DeleteRightmostNode is validated.  Applied to a store satisfying the
\* five invariants, DeleteRightmostNode(y, id, card) removes the last node
\* of layer y from the layer, the node map and the reverse index when the
\* id and the card of the edit are those of that node, and otherwise raises
\* a structural edit error and removes nothing.
C17_DeleteRightmostNodeValidated ==
  Attempted("DeleteRightmostNode") =>
    LET e == last.edits[1]
        A == before.tree
        layer == A.node_layers[e.y + 1]
        node == layer[Len(layer)]
    IN IF node.id = e.id /\ A.node_dict[node.id].card = e.card
         THEN /\ raised = NoExc
              /\ LayersIds(tree) =
                   [LayersIds(A) EXCEPT ![e.y + 1] = SubSeq(@, 1, Len(@) - 1)]
              /\ tree.node_dict = DictDel(A.node_dict, e.id)
              /\ tree.node_yxs = DictDel(A.node_yxs, e.id)
         ELSE /\ raised = "TreeEditError"
              /\ Queryable(tree) = Queryable(A)

\* a DeleteRightmostNode that matched the last node of its layer removed it
C17_Witness ==
  /\ Edited("DeleteRightmostNode")
  /\ last.edits[1].id \notin DOMAIN tree.node_dict

\* the session consisted of composite operations that applied without
\* error: every step pushed its sequence on the undo stack
OnlyCompositeOps == Len(undo_stack) = last.n /\ redo_stack = <<>>

\* C18: MoveNode is validated.  In every state reached by composite
\* operations, for every node id of the store, MoveNode(id, old_x, new_x)
\* changes nothing when old_x = new_x, and when old_x # new_x it raises a
\* structural edit error whenever the position the node occupies in its
\* layer differs from old_x.
C18_MoveNodeValidated ==
  OnlyCompositeOps =>
    \A id \in Ids, old_x \in 0..MaxId, new_x \in 0..MaxId :
      LET r == _apply_edit(tree, gi_base, MoveNode(id, old_x, new_x))
      IN /\ old_x = new_x => (r.exc = NoExc /\ r.tree = tree)
         /\ (/\ old_x # new_x
             /\ CellsOf(tree, id) # {}
             /\ \A yx \in CellsOf(tree, id) : yx[2] # old_x)
              => r.exc = "TreeEditError"

(***************************************************************************)
(* Properties of apply_edits.                                              *)
(***************************************************************************)
\* the sequence the handler that just ended gave to apply_edits
AppliedSequence == IF last.op = "undo" THEN reversed_edits(last.edits) ELSE last.edits

\* the handler that just ended gave a sequence to apply_edits and apply_edits
\* raised
ApplyRaised ==
  /\ last.op \in CompositeOps \cup {"undo", "redo"}
  /\ last.edits # <<>>
  /\ raised # NoExc

DoNewParentOfOrphan ==
  \E id \in Ids :
    /\ tree.last_id < MaxId
    /\ tree.node_dict[id].parent_id = -1
    /\ Slot("new_parent", id, -1, DefaultCard, edits_for_new_parent(tree, id, DefaultCard))

\* a decoded forest of at most MaxStartNodes nodes, nothing applied yet
InitBuilders ==
  /\ \E widths \in ForestWidths :
       \E par \in ForestParents(widths, Len(widths)) :
         /\ Forest(widths, par).last_id < MaxStartNodes
         /\ tree = Forest(widths, par)
         /\ origin = Forest(widths, par)
         /\ before = [tree |-> Forest(widths, par), gi_base |-> 1,
                      undo_stack |-> <<>>, redo_stack |-> <<>>]
  /\ gi_base = 1
  /\ undo_stack = <<>>
  /\ redo_stack = <<>>
  /\ raised = NoExc
  /\ last = [op |-> "init", id |-> -1, y |-> -1, card |-> DefaultCard, edits |-> <<>>, n |-> 0]
  /\ applied = <<>>
  /\ painting = EmptyDict
  /\ instances = <<>>
  /\ text = <<>>

NextBuilders ==
  \/ DoNewNode
  \/ DoNewChild
  \/ DoNewParentOfOrphan
  \/ DoDeleteNode
  \/ DoSetCard
  \/ DoSetGi

SpecBuilders == InitBuilders /\ [][NextBuilders]_vars

(***************************************************************************)
(* Properties of the composite builders.                                   *)
(***************************************************************************)
\* C20: builders build applicable sequences.  In every state reached from
\* the empty tree or a decoded forest by composite operations on existing
\* nodes (new_parent: on a node without parent), the sequence a composite
\* builder returns applies to the state it was built from without raising.
C20_BuiltSequencesApply ==
  (last.op \in CompositeOps /\ last.edits # <<>>) => raised = NoExc

\* the ids of a sequence without id n, in order
WithoutId(ids, n) == SelectSeq(ids, LAMBDA i : i # n)

RefPositions(t, y, x, children) ==
  {r \in 0..x : LET n == t.node_dict[t.node_layers[y + 1][r + 1].id]
                IN IF children THEN n.child_ids # <<>> ELSE n.parent_id >= 0}

\* the greatest element of a non-empty set of integers
SetMax(S) == CHOOSE m \in S : \A k \in S : k <= m

\* where the placement policy puts a new child of P: right of the rightmost
\* child of the nearest node at or left of P that has children, else 0
PlacementChildX(t, P) ==
  LET y == t.node_yxs[P][1]
      refs == RefPositions(t, y, t.node_yxs[P][2], TRUE)
  IN IF refs = {} THEN 0
     ELSE LET ref == t.node_dict[t.node_layers[y + 1][SetMax(refs) + 1].id]
          IN SetMax({t.node_yxs[ref.child_ids[k]][2] : k \in 1..Len(ref.child_ids)}) + 1

\* the ids of layer y of the store, <<>> when the store has no layer y
LayerIdsAt(t, y) ==
  IF y + 1 \in 1..Len(t.node_layers) THEN LayerIds(t.node_layers[y + 1]) ELSE <<>>

\* C22: insert child placement.  When new child of P applied without error
\* to a store satisfying the five invariants, the new node is in layer
\* y(P) + 1 (a new last layer if P was in the last layer), is the last entry
\* of the child list of P and has P as parent, sits at the position the
\* placement policy gives, and the nodes the layer had keep their order.
C22_NewChildPlacement ==
  (Performed({"new_child"}) /\ WellFormed(before.tree))
    => LET P == last.id
           new == tree.last_id
           A == before.tree
           cy == A.node_yxs[P][1] + 1
           layer == LayerIdsAt(tree, cy)
       IN /\ nlayers(tree) = IF cy = nlayers(A) THEN nlayers(A) + 1 ELSE nlayers(A)
          /\ PlacementChildX(A, P) + 1 \in 1..Len(layer)
          /\ layer[PlacementChildX(A, P) + 1] = new
          /\ tree.node_dict[new].parent_id = P
          /\ tree.node_dict[P].child_ids = Append(A.node_dict[P].child_ids, new)
          /\ WithoutId(layer, new) = LayerIdsAt(A, cy)

\* where the placement policy puts a new parent of C: right of the parent of
\* the nearest node left of C that has a parent, else 0
PlacementParentX(t, C) ==
  LET y == t.node_yxs[C][1]
      refs == RefPositions(t, y, t.node_yxs[C][2], FALSE)
  IN IF refs = {} THEN 0
     ELSE t.node_yxs[t.node_dict[t.node_layers[y + 1][SetMax(refs) + 1].id].parent_id][2] + 1

\* C23: insert parent placement.  When new parent of a node C without
\* parent applied without error to a store satisfying the five invariants,
\* the new node is in the layer directly above C (a new first layer if C was
\* in layer 0), has C as its only child and is the parent of C, sits at the
\* position the placement policy gives, and the nodes the layer had keep
\* their order.
C23_NewParentPlacement ==
  (/\ Performed({"new_parent"})
   /\ WellFormed(before.tree)
   /\ before.tree.node_dict[last.id].parent_id = -1)
    => LET C == last.id
           new == tree.last_id
           A == before.tree
           cy == A.node_yxs[C][1]
           py == IF cy = 0 THEN 0 ELSE cy - 1
           layer == LayerIdsAt(tree, py)
       IN /\ nlayers(tree) = IF cy = 0 THEN nlayers(A) + 1 ELSE nlayers(A)
          /\ tree.node_yxs[C][1] = py + 1
          /\ PlacementParentX(A, C) + 1 \in 1..Len(layer)
          /\ layer[PlacementParentX(A, C) + 1] = new
          /\ tree.node_dict[new].child_ids = <<C>>
          /\ tree.node_dict[C].parent_id = new
          /\ WithoutId(layer, new) = IF cy = 0 THEN <<>> ELSE LayerIdsAt(A, py)

\* C24: insert node at layer y.  The sequence of new node at y is
\* NewRightmostNode(y, id, card) alone when 0 <= y < layer count, NewLayer(0)
\* and NewRightmostNode(0, id, card) when y = -1, NewLayer(layer count) and
\* NewRightmostNode(layer count, id, card) when y is the layer count, with id
\* the next id of the counter; when it applied without error the new node is
\* the rightmost node of its layer, has no parent and no children, and every
\* other node has the card, parent and children it had.
C24_NewNode ==
  Performed({"new_node"})
    => LET A == before.tree
           y == last.y
           n == nlayers(A)
           new == A.last_id + 1
           ty == IF y = -1 THEN 0 ELSE y
           layer == LayerIdsAt(tree, ty)
       IN /\ tree.last_id = new
          /\ last.edits = IF y = -1 THEN <<NewLayer(0), NewRightmostNode(0, new, last.card)>>
                          ELSE IF y = n THEN <<NewLayer(n), NewRightmostNode(n, new, last.card)>>
                          ELSE <<NewRightmostNode(y, new, last.card)>>
          /\ nlayers(tree) = IF y = -1 \/ y = n THEN n + 1 ELSE n
          /\ layer # <<>>
          /\ layer[Len(layer)] = new
          /\ WithoutId(layer, new) = IF y = -1 \/ y = n THEN <<>> ELSE LayerIdsAt(A, y)
          /\ tree.node_dict[new] = Node(last.card)
          /\ DOMAIN tree.node_dict = DOMAIN A.node_dict \cup {new}
          /\ \A m \in DOMAIN A.node_dict : tree.node_dict[m] = A.node_dict[m]

\* a node was added in a new first layer of a tree that has a relation
C24_Witness ==
  /\ Performed({"new_node"})
  /\ last.y = -1
  /\ \E m \in DOMAIN before.tree.node_dict : before.tree.node_dict[m].parent_id >= 0

\* Tree.compute_gi(id)[gi_index]: the layer of id is read from the reverse
\* index
compute_gi(t, b, id, gi_index) == compute_layer_gi(b, t.node_yxs[id][1], gi_index)

\* the layers in which the node map's object of id occupies a cell
LayersOf(t, id) == {yx[1] : yx \in CellsOf(t, id)}

\* C25: set generation index.  After set gi of node m, definition i, value v
\* applied to a store satisfying the five invariants, the generation index i
\* of m is v and the generation index j of every node n is
\* v + (y(n) - y(m)) + offset[j] - offset[i], y being the layer the node is
\* in; and in every state two nodes that occupy cells of the same layer have
\* the same generation index for every definition.
C25_GenerationIndex ==
  /\ (Performed({"set_gi"}) /\ WellFormed(before.tree))
       => LET m == last.id
              i == last.y
              v == last.card
          IN /\ compute_gi(tree, gi_base, m, i) = v
             /\ \A n \in DOMAIN tree.node_dict, j \in 0..(Len(gi_defs) - 1) :
                  \A yn \in LayersOf(tree, n), ym \in LayersOf(tree, m) :
                    compute_gi(tree, gi_base, n, j)
                      = v + (yn - ym) + gi_defs[j + 1] - gi_defs[i + 1]
  /\ \A a \in DOMAIN tree.node_dict, c \in DOMAIN tree.node_dict :
       (/\ LayersOf(tree, a) \cap LayersOf(tree, c) # {}
        /\ a \in DOMAIN tree.node_yxs
        /\ c \in DOMAIN tree.node_yxs)
         => \A j \in 0..(Len(gi_defs) - 1) :
              compute_gi(tree, gi_base, a, j) = compute_gi(tree, gi_base, c, j)

(***************************************************************************)
(* Several Tree instances in one process.  TreeSettings.gi is assigned in  *)
(* the class body without an annotation, so it is a class attribute: the   *)
(* one GenerationIndexSettings object is what every Tree's settings.gi     *)
(* reads and writes, and gi_base is its base.  tree is the instance the    *)
(* program works on, instances are the Trees constructed before it.        *)
(***************************************************************************)
\* Tree.from_str_repr(...) / Tree(): a new instance; __init__ creates a
\* TreeSettings, which has no gi of its own
Construct ==
  /\ last.n < MaxOps
  /\ Len(instances) < MaxInstances - 1
  /\ \E widths \in ForestWidths :
       \E par \in ForestParents(widths, Len(widths)) :
         /\ Forest(widths, par).last_id < MaxStartNodes
         /\ tree' = Forest(widths, par)
  /\ instances' = Append(instances, tree)
  /\ last' = Handler("construct", -1, -1, DefaultCard, <<>>)
  /\ before' = Snapshot
  /\ raised' = NoExc
  /\ UNCHANGED <<gi_base, undo_stack, redo_stack, origin, applied, painting, text>>

InitInstances == Init

NextInstances ==
  \/ Construct
  \/ DoSetGi

SpecInstances == InitInstances /\ [][NextInstances]_vars

\* C26: generation index settings per instance.  A Tree that was just
\* constructed has base 1, and after set gi applied to one Tree every node of
\* every other Tree has, for every definition, the generation index it had.
C26_SettingsPerInstance ==
  /\ Performed({"construct"}) => gi_base = 1
  /\ Performed({"set_gi"})
       => \A k \in 1..Len(instances) :
            \A n \in DOMAIN instances[k].node_yxs, j \in 0..(Len(gi_defs) - 1) :
              compute_gi(instances[k], gi_base, n, j)
                = compute_gi(instances[k], before.gi_base, n, j)

\* the ids of the Node objects of the store: the keys of the node map and of
\* the reverse index, and the ids of the objects in the layers
StoreIds(t) ==
  DOMAIN t.node_dict \cup DOMAIN t.node_yxs \cup {CellAt(t, yx).id : yx \in AllCells(t)}

\* C27: fresh ids.  The id counter never decreases, a composite operation
\* that creates a node gives it the counter's next value, every id of the
\* store is at most the counter (so the next id is one no node has or had),
\* and two Node objects of the store never have the same id: an object in the
\* layers that is not the node map's object of its id has an id that is not
\* in the node map and that no other object in the layers has.
C27_FreshIds ==
  /\ tree.last_id >= before.tree.last_id
  /\ Performed({"new_node", "new_child", "new_parent"})
       => /\ tree.last_id = before.tree.last_id + 1
          /\ tree.last_id \notin StoreIds(before.tree)
  /\ \A id \in StoreIds(tree) : id <= tree.last_id
  /\ \A yx \in AllCells(tree) :
       ~CellAt(tree, yx).live
         => /\ CellAt(tree, yx).id \notin DOMAIN tree.node_dict
            /\ \A zw \in AllCells(tree) :
                 CellAt(tree, zw).id = CellAt(tree, yx).id => CellAt(tree, zw) = CellAt(tree, yx)

\* the store after a builder returned bt and its sequence was discarded
AfterBuild(t, bt) == [t EXCEPT !.last_id = bt.last_id]

\* C28: builders are pure.  In every state, calling a builder of the tree
\* (new node, new child, new parent, delete node, set card, set gi, set as
\* child) and discarding what it returns leaves the store, its id counter
\* included, as it was, and calling it again returns the same sequence.
C28_BuildersPure ==
  /\ \A y \in -1..nlayers(tree) :
       LET bt == edits_for_new_node(tree, y, DefaultCard)
       IN /\ AfterBuild(tree, bt) = tree
          /\ edits_for_new_node(AfterBuild(tree, bt), y, DefaultCard).edits = bt.edits
  /\ \A id \in DOMAIN tree.node_dict :
       /\ LET bt == edits_for_new_child(tree, id, DefaultCard)
          IN /\ AfterBuild(tree, bt) = tree
             /\ edits_for_new_child(AfterBuild(tree, bt), id, DefaultCard).edits = bt.edits
       /\ LET bt == edits_for_new_parent(tree, id, DefaultCard)
          IN /\ AfterBuild(tree, bt) = tree
             /\ edits_for_new_parent(AfterBuild(tree, bt), id, DefaultCard).edits = bt.edits
       /\ AfterBuild(tree, edits_for_delete_node(tree, id)) = tree
       /\ AfterBuild(tree, edits_for_set_card(tree, id, DefaultCard)) = tree
       /\ \A gi_index \in 0..(Len(gi_defs) - 1), gi \in GiValues :
            AfterBuild(tree, edits_for_set_gi(tree, gi_base, id, gi_index, gi)) = tree
       /\ \A child_id \in DOMAIN tree.node_dict :
            AfterBuild(tree, edits_for_set_as_child(tree, id, child_id)) = tree

SetMin(S) == CHOOSE m \in S : \A k \in S : m <= k

\* str.split(sep): the pieces between the separators, one more than there
\* are separators
split(s, sep) ==
  LET P == {i \in 1..Len(s) : s[i] = sep}
      Kth(k) == CHOOSE i \in P : Cardinality({j \in P : j < i}) = k - 1
      n == Cardinality(P)
  IN [k \in 1..(n + 1) |->
        SubSeq(s, IF k = 1 THEN 1 ELSE Kth(k - 1) + 1,
                  IF k = n + 1 THEN Len(s) ELSE Kth(k) - 1)]

\* sep.join(strs)
RECURSIVE join(_, _)
join(strs, sep) ==
  IF strs = <<>> THEN <<>>
  ELSE IF Len(strs) = 1 THEN strs[1]
  ELSE strs[1] \o <<sep>> \o join(Tail(strs), sep)

\* the character class [^\(\),] of the name group
IsNameChar(ch) == ch \notin {"(", ")", ","}

\* one attempt of the pattern at position i of a layer text: the longest run
\* of name characters, then the optional group "(" [^)]* ")" , then "," or
\* the end of the text; children is None when the group did not take part
MatchAt(seg, i) ==
  LET stops == {k \in i..Len(seg) : ~IsNameChar(seg[k])}
      e == IF stops = {} THEN Len(seg) ELSE SetMin(stops) - 1
      closes == {k \in (e + 2)..Len(seg) : seg[k] = ")"}
      c == IF closes = {} THEN 0 ELSE SetMin(closes)
      NoMatch == [ok |-> FALSE, name |-> <<>>, grouped |-> FALSE, children |-> <<>>, end |-> i + 1]
  IN IF e < i THEN NoMatch
     ELSE IF e + 1 <= Len(seg) /\ seg[e + 1] = "(" /\ closes # {}
                /\ (c + 1 > Len(seg) \/ seg[c + 1] = ",")
       THEN [ok |-> TRUE, name |-> SubSeq(seg, i, e), grouped |-> TRUE,
             children |-> SubSeq(seg, e + 2, c - 1),
             end |-> IF c + 1 > Len(seg) THEN c + 1 ELSE c + 2]
     ELSE IF e + 1 > Len(seg)
       THEN [ok |-> TRUE, name |-> SubSeq(seg, i, e), grouped |-> FALSE,
             children |-> <<>>, end |-> e + 1]
     ELSE IF seg[e + 1] = ","
       THEN [ok |-> TRUE, name |-> SubSeq(seg, i, e), grouped |-> FALSE,
             children |-> <<>>, end |-> e + 2]
     ELSE NoMatch

\* re.finditer over a layer text: the matches from left to right, each as
\* the name and the list of child names ("if match.group('children')": an
\* absent or empty group gives no children)
RECURSIVE finditer(_, _, _)
finditer(seg, i, acc) ==
  IF i > Len(seg) THEN acc
  ELSE CHOOSE r \in
         {IF m.ok
            THEN finditer(seg, m.end,
                          Append(acc, [name |-> m.name,
                                       children |-> IF m.children # <<>>
                                                      THEN split(m.children, ",")
                                                      ELSE <<>>]))
          ELSE finditer(seg, m.end, acc) : m \in {MatchAt(seg, i)}} : TRUE

\* layer_strs without 'if layer_strs[-1] == "": layer_strs = layer_strs[:-1]':
\* the piece after a last ";" is a layer
layer_strs_keeps_last_piece(s) == split(s, ";")

\* layer_strs with an unconditional 'layer_strs = layer_strs[:-1]': the last
\* piece is dropped whether it is empty or not
layer_strs_drops_last_piece(s) == SubSeq(split(s, ";"), 1, Len(split(s, ";")) - 1)

\* layer_strs: the text split at ";", without a last empty piece
layer_strs(s) ==
  LET pieces == split(s, ";")
  IN IF pieces[Len(pieces)] = <<>> THEN SubSeq(pieces, 1, Len(pieces) - 1) ELSE pieces

RECURSIVE SumLens(_, _)
\* the number of nodes in the first y layers
SumLens(layers, y) == IF y = 0 THEN 0 ELSE SumLens(layers, y - 1) + Len(layers[y])

\* name_layers and child_layers: for every layer text the matches of the
\* pattern
ParsedLayers(s) ==
  CHOOSE r \in {[y \in 1..Len(strs) |-> finditer(strs[y], 1, <<>>)] : strs \in {layer_strs(s)}} :
    TRUE

\* the two passes of from_str_repr over the parsed layers: ids in layer order
\* from left to right, the name dictionary keeps the last node of a name, a
\* child name that is not in it raises KeyError
TreeOfLayers(layers) ==
  LET n == SumLens(layers, Len(layers))
      Where == {<<y, x>> : y \in 1..Len(layers), x \in 1..n}
      At(y, x) == SumLens(layers, y - 1) + x - 1
      yx(id) == CHOOSE p \in Where : p[2] <= Len(layers[p[1]]) /\ At(p[1], p[2]) = id
      name(id) == layers[yx(id)[1]][yx(id)[2]].name
      named(nm) == {id \in 0..(n - 1) : name(id) = nm}
      child_names(id) == layers[yx(id)[1]][yx(id)[2]].children
      missing == \E id \in 0..(n - 1) : \E k \in 1..Len(child_names(id)) :
                   named(child_names(id)[k]) = {}
      children(id) == [k \in 1..Len(child_names(id)) |-> SetMax(named(child_names(id)[k]))]
      parents(id) == {p \in 0..(n - 1) : \E k \in 1..Len(children(p)) : children(p)[k] = id}
  IN IF missing THEN [tree |-> EmptyTree, exc |-> "KeyError"]
     ELSE [tree |->
             [last_id |-> n - 1,
              node_dict |-> [id \in 0..(n - 1) |->
                              [card |-> name(id),
                               parent_id |-> IF parents(id) = {} THEN -1
                                             ELSE SetMax(parents(id)),
                               child_ids |-> children(id)]],
              node_layers |-> [y \in 1..Len(layers) |->
                                [x \in 1..Len(layers[y]) |-> LiveCell(At(y, x))]],
              node_yxs |-> [id \in 0..(n - 1) |-> <<yx(id)[1] - 1, yx(id)[2] - 1>>]],
           exc |-> NoExc]

\* Tree.from_str_repr(str_repr)
from_str_repr(s) == CHOOSE r \in {TreeOfLayers(layers) : layers \in {ParsedLayers(s)}} : TRUE

\* the text of one node: its name, followed by its children's names in
\* parentheses if it has children
node_str(t, node) ==
  IF node.child_ids = <<>> THEN node.card
  ELSE node.card \o <<"(">>
         \o join([k \in 1..Len(node.child_ids) |-> t.node_dict[node.child_ids[k]].card], ",")
         \o <<")">>

\* the text of a layer: the node texts joined by ","
layer_str(t, y) ==
  join([x \in 1..Len(t.node_layers[y]) |-> node_str(t, CellNode(t, t.node_layers[y][x]))], ",")

RECURSIVE LayersText(_, _)
\* the loop 'str_repr += ",".join(node_strs) + ";"' over the first y layers
LayersText(t, y) ==
  IF y = 0 THEN <<>> ELSE LayersText(t, y - 1) \o layer_str(t, y) \o <<";">>

\* Tree.str_repr(): every layer ends with ";"; a child id that is not in
\* the node map raises KeyError
str_repr(t) ==
  IF \E yx \in AllCells(t) :
       \E k \in 1..Len(CellNode(t, CellAt(t, yx)).child_ids) :
         CellNode(t, CellAt(t, yx)).child_ids[k] \notin DOMAIN t.node_dict
    THEN [str |-> <<>>, exc |-> "KeyError"]
  ELSE [str |-> LayersText(t, Len(t.node_layers)), exc |-> NoExc]

(***************************************************************************)
(* Texts of the codec's format: layers separated by ";" with an optional   *)
(* last ";", nodes separated by ",", a node being a name that may be       *)
(* followed by its children's names in parentheses.  Names are unique; a   *)
(* layer may be empty and a node without children may be written "name()". *)
(***************************************************************************)
CodecDigits == <<"0", "1", "2", "3", "4", "5", "6", "7", "8", "9">>

RECURSIVE Decimal(_)
Decimal(k) == IF k < 10 THEN <<CodecDigits[k + 1]>> ELSE Decimal(k \div 10) \o <<CodecDigits[(k % 10) + 1]>>

\* the name of the k-th node of a text: "n0", "n1", ...
CodecName(k) == <<"n">> \o Decimal(k)

CodecWidths == UNION {[1..l -> 0..MaxCodecWidth] : l \in 0..MaxCodecLayers}

\* the text of the forest of these widths and parents; the nodes of parens
\* that have no children are written with "()"
CodecText(widths, par, parens, trailing) ==
  LET kids(y, x) == ForestChildren(widths, par, y, x)
      node(y, x) ==
        CodecName(ForestId(widths, y, x))
          \o (IF kids(y, x) # <<>>
                THEN <<"(">> \o join([k \in 1..Len(kids(y, x)) |-> CodecName(kids(y, x)[k])], ",")
                       \o <<")">>
              ELSE IF ForestId(widths, y, x) \in parens THEN <<"(", ")">>
              ELSE <<>>)
      layer(y) == join([x \in 1..widths[y] |-> node(y, x)], ",")
  IN join([y \in 1..Len(widths) |-> layer(y)], ";") \o (IF trailing THEN <<";">> ELSE <<>>)

\* Tree.from_str_repr(text): the store is the decoded tree
Decode ==
  /\ last.op \in {"init", "encode"}
  /\ last.n < MaxCodecSteps
  /\ \E r \in {from_str_repr(text)} :
       /\ tree' = r.tree
       /\ raised' = r.exc
  /\ last' = Handler("decode", -1, -1, DefaultCard, <<>>)
  /\ before' = Snapshot
  /\ UNCHANGED <<gi_base, undo_stack, redo_stack, origin, applied, painting, instances, text>>

\* tree.str_repr(): the text is the encoding of the store
Encode ==
  /\ last.op = "decode"
  /\ raised = NoExc
  /\ \E r \in {str_repr(tree)} :
       /\ text' = r.str
       /\ raised' = r.exc
  /\ last' = Handler("encode", -1, -1, DefaultCard, <<>>)
  /\ before' = Snapshot
  /\ UNCHANGED <<tree, gi_base, undo_stack, redo_stack, origin, applied, painting, instances>>

InitCodec ==
  /\ \E widths \in CodecWidths :
       \E par \in ForestParents(widths, Len(widths)) :
         \E parens \in SUBSET (0..(Offset(widths, Len(widths) + 1) - 1)), trailing \in BOOLEAN :
           text = CodecText(widths, par, parens, trailing)
  /\ tree = EmptyTree
  /\ before = [tree |-> EmptyTree, gi_base |-> 1, undo_stack |-> <<>>, redo_stack |-> <<>>]
  /\ gi_base = 1
  /\ undo_stack = <<>>
  /\ redo_stack = <<>>
  /\ raised = NoExc
  /\ last = [op |-> "init", id |-> -1, y |-> -1, card |-> DefaultCard, edits |-> <<>>, n |-> 0]
  /\ origin = EmptyTree
  /\ applied = <<>>
  /\ painting = EmptyDict
  /\ instances = <<>>

NextCodec ==
  \/ Decode
  \/ Encode

SpecCodec == InitCodec /\ [][NextCodec]_vars

\* C30: codec round trip.  When a tree T decoded from a text of the format
\* was encoded and the encoding is decoded, the result has the layers, names,
\* positions, child lists, parents and id counter of T; and the encoding of
\* a tree decoded from an encoding is that encoding.
C30_RoundTrip ==
  /\ (last.op = "encode" /\ raised = NoExc)
       => /\ from_str_repr(text).exc = NoExc
          /\ from_str_repr(text).tree = tree
  /\ (last.op = "decode" /\ last.n = 3)
       => /\ raised = NoExc
          /\ tree = before.tree
          /\ str_repr(tree) = [str |-> text, exc |-> NoExc]
  /\ (last.op = "encode" /\ last.n = 2) => raised = NoExc

\* the encoding of a tree of three layers, the middle one empty, was decoded
C30_Witness ==
  /\ last.op = "decode"
  /\ last.n = 3
  /\ Len(tree.node_layers) = 3
  /\ tree.node_layers[2] = <<>>
  /\ tree.node_layers[3] # <<>>

(***************************************************************************)
(* The decoder on inputs it is not promised: names may repeat and a child  *)
(* name may be any name, also one that no node of the next layer has or    *)
(* that no node has at all.                                                *)
(***************************************************************************)
DecodeNames == {<<"a">>, <<"b">>, <<"c">>}

NodeSpecs == [name : DecodeNames, kids : UNION {[1..k -> DecodeNames] : k \in 0..MaxDecodeKids}]

LayerSpecs == UNION {[1..w -> NodeSpecs] : w \in 1..MaxDecodeWidth}

TreeSpecs == UNION {[1..l -> LayerSpecs] : l \in 0..MaxDecodeLayers}

\* the text of these layers of nodes
SpecText(ts, trailing) ==
  LET node(nd) == IF nd.kids = <<>> THEN nd.name
                  ELSE nd.name \o <<"(">> \o join(nd.kids, ",") \o <<")">>
      layer(ls) == join([x \in 1..Len(ls) |-> node(ls[x])], ",")
  IN join([y \in 1..Len(ts) |-> layer(ts[y])], ";") \o (IF trailing THEN <<";">> ELSE <<>>)

InitDecode ==
  /\ \E ts \in TreeSpecs, trailing \in BOOLEAN : text = SpecText(ts, trailing)
  /\ tree = EmptyTree
  /\ before = [tree |-> EmptyTree, gi_base |-> 1, undo_stack |-> <<>>, redo_stack |-> <<>>]
  /\ gi_base = 1
  /\ undo_stack = <<>>
  /\ redo_stack = <<>>
  /\ raised = NoExc
  /\ last = [op |-> "init", id |-> -1, y |-> -1, card |-> DefaultCard, edits |-> <<>>, n |-> 0]
  /\ origin = EmptyTree
  /\ applied = <<>>
  /\ painting = EmptyDict
  /\ instances = <<>>

NextDecode ==
  \/ Decode
  \/ Encode

SpecDecode == InitDecode /\ [][NextDecode]_vars

\* the names the pattern finds in a text, layer after layer
ParsedNames(s) ==
  LET layers == ParsedLayers(s)
  IN [p \in {<<y, x>> \in (1..Len(layers)) \X (1..Len(s)) : x <= Len(layers[y])}
        |-> layers[p[1]][p[2]].name]

\* two nodes of the text have the same name
DuplicateName(s) ==
  \E p \in DOMAIN ParsedNames(s), q \in DOMAIN ParsedNames(s) :
    p # q /\ ParsedNames(s)[p] = ParsedNames(s)[q]

\* C31: duplicate names are a parse failure.  When a text in which two nodes
\* have the same name was decoded, the decoder raised and built no tree.
C31_DuplicateNameRejected ==
  (last.op = "decode" /\ last.n = 1 /\ DuplicateName(text))
    => raised # NoExc /\ tree = EmptyTree

\* C32: a trailing ";" is tolerated.  When a text of the format that ends
\* with a non-empty layer (not with ";") was decoded, decoding the text
\* followed by ";" gives the same outcome: the same tree, ids, names and
\* relations, and no error.
C32_TrailingSemicolon ==
  (last.op = "decode" /\ last.n = 1 /\ text # <<>> /\ text[Len(text)] # ";")
    => /\ raised = NoExc
       /\ from_str_repr(text \o <<";">>) = [tree |-> tree, exc |-> NoExc]

\* a text of two layers without a last ";" was decoded
C32_Witness ==
  /\ last.op = "decode"
  /\ last.n = 1
  /\ text # <<>>
  /\ text[Len(text)] # ";"
  /\ Len(tree.node_layers) = 2
  /\ \E id \in DOMAIN tree.node_dict : tree.node_dict[id].child_ids # <<>>

\* C39: decoded trees satisfy the relation invariants.  In a tree the decoder
\* built without error every node named as a child is in the layer directly
\* below the node naming it, has that node as its parent id, and is named as
\* a child once, by that node only.
C39_DecodedRelations ==
  (last.op = "decode" /\ raised = NoExc)
    => \A p \in DOMAIN tree.node_dict :
         \A k \in 1..Len(tree.node_dict[p].child_ids) :
           LET c == tree.node_dict[p].child_ids[k]
           IN /\ tree.node_yxs[c][1] = tree.node_yxs[p][1] + 1
              /\ tree.node_dict[c].parent_id = p
              /\ \A q \in DOMAIN tree.node_dict :
                   \A j \in 1..Len(tree.node_dict[q].child_ids) :
                     tree.node_dict[q].child_ids[j] = c => (q = p /\ j = k)

(***************************************************************************)
(* gmlib.models: the tree of Node objects.  A decoded models.Tree is the   *)
(* forest of its text: layers of nodes, each with its parent and the list  *)
(* of its children; painting holds the draw fields of the nodes (x, mod,   *)
(* lcontour, rcontour), which a new Node starts at 0, 0, [], [].           *)
(***************************************************************************)
\* models.Tree._compare_and_move: the spacing is 1 for every pair
models_compare_and_move(L, lid, rid) ==
  LET n == Min(Len(L.rcons[lid]), Len(L.lcons[rid]))
      min_dist == SeqMin([i \in 1..n |-> L.lcons[rid][i] - L.rcons[lid][i]])
      mod == IF min_dist < PaintUnit THEN PaintUnit - min_dist ELSE 0
  IN [L EXCEPT !.mods[rid] = mod,
               !.lcons[rid] = [i \in 1..Len(L.lcons[rid]) |-> L.lcons[rid][i] + mod],
               !.rcons[rid] = [i \in 1..Len(L.rcons[rid]) |-> L.rcons[rid][i] + mod]]

\* the while loop over the adjacent pairs of a layer in move()
RECURSIVE models_CompareLayer(_, _, _)
models_CompareLayer(L, layer, rj) ==
  IF rj > Len(layer) THEN L
  ELSE \* bound once: the next pair reads what this one wrote
       CHOOSE r \in {models_CompareLayer(L1, layer, rj + 1) :
                       L1 \in {models_compare_and_move(L, layer[rj - 1].id, layer[rj].id)}} : TRUE

\* the first loop of move(): for i in reversed(range(len(self.layers) - 1)),
\* at layer y; the last layer is never centred or compared
RECURSIVE models_SetMods(_, _, _)
models_SetMods(t, L, y) ==
  IF y < 1 THEN L
  ELSE CHOOSE r \in {models_SetMods(t, L2, y - 1) :
                       L2 \in {models_CompareLayer(L1, t.node_layers[y], 2) :
                                L1 \in {CenterLayer(t, L, t.node_layers[y], 1)}}} : TRUE

\* move() of update_xs
move(t, L) ==
  CHOOSE r \in {ApplyMods(t, L1, 1, 1) : L1 \in {models_SetMods(t, L, Len(t.node_layers) - 1)}} : TRUE

\* stacking() of update_xs
stacking(t, L) ==
  \E y \in 1..Len(t.node_layers) :
    \E rj \in 2..Len(t.node_layers[y]) :
      L.xs[t.node_layers[y][rj - 1].id] > L.xs[t.node_layers[y][rj].id] - PaintUnit

(***************************************************************************)
(* update_xs step by step: the seed of the last layer with the first       *)
(* move(), the test of the while loop, and the move() of its body.         *)
(***************************************************************************)
UpdateXsBegin ==
  /\ last.op = "init"
  /\ IF Len(tree.node_layers) < 1
       THEN /\ painting' = painting
            /\ last' = Handler("done", -1, -1, DefaultCard, <<>>)
       ELSE /\ \E L \in {SeedLastLayer(tree, painting, 1)} : painting' = move(tree, L)
            /\ last' = Handler("test", -1, -1, DefaultCard, <<>>)
  /\ before' = Snapshot
  /\ UNCHANGED <<tree, gi_base, undo_stack, redo_stack, raised, origin, applied, instances, text>>

\* while stacking(): the test
UpdateXsTest ==
  /\ last.op = "test"
  /\ last' = [last EXCEPT !.op = IF stacking(tree, painting) THEN "move" ELSE "done"]
  /\ UNCHANGED <<tree, gi_base, undo_stack, redo_stack, raised, before, origin, applied,
                 painting, instances, text>>

\* while stacking(): the body
UpdateXsMove ==
  /\ last.op = "move"
  /\ painting' = move(tree, painting)
  /\ last' = [last EXCEPT !.op = "test"]
  /\ UNCHANGED <<tree, gi_base, undo_stack, redo_stack, raised, before, origin, applied,
                 instances, text>>

InitUpdateXs ==
  /\ \E widths \in ForestWidths :
       \E par \in ForestParents(widths, Len(widths)) :
         /\ tree = Forest(widths, par)
         /\ origin = Forest(widths, par)
         /\ before = [tree |-> Forest(widths, par), gi_base |-> 1,
                      undo_stack |-> <<>>, redo_stack |-> <<>>]
         /\ painting = PaintStart(Forest(widths, par))
  /\ gi_base = 1
  /\ undo_stack = <<>>
  /\ redo_stack = <<>>
  /\ raised = NoExc
  /\ last = [op |-> "init", id |-> -1, y |-> -1, card |-> DefaultCard, edits |-> <<>>, n |-> 0]
  /\ applied = <<>>
  /\ instances = <<>>
  /\ text = <<>>

NextUpdateXs == UpdateXsBegin \/ UpdateXsTest \/ UpdateXsMove

\* update_xs runs to its end unless it loops: every step that can be taken is
\* taken
SpecUpdateXs == InitUpdateXs /\ [][NextUpdateXs]_vars /\ WF_vars(NextUpdateXs)

\* C33: update_xs terminates for every tree, and when it has terminated no
\* adjacent pair of any layer is closer than one unit
C33_UpdateXsTerminates ==
  /\ <>(last.op = "done")
  /\ [](last.op = "done" =>
          \A y \in 1..Len(tree.node_layers) :
            \A rj \in 2..Len(tree.node_layers[y]) :
              painting.xs[tree.node_layers[y][rj].id]
                - painting.xs[tree.node_layers[y][rj - 1].id] >= PaintUnit)

models_find_ij(layers) ==
  LET ids == {layers[y][x].id : <<y, x>> \in {p \in (1..Len(layers)) \X (1..MaxId + MaxForestLayers * MaxForestWidth) :
                                                p[2] <= Len(layers[p[1]])}}
  IN [id \in ids |->
       CHOOSE p \in (0..Len(layers) - 1) \X (0..MaxId + MaxForestLayers * MaxForestWidth) :
         p[2] < Len(layers[p[1] + 1]) /\ layers[p[1] + 1][p[2] + 1].id = id]

\* while len(self.layers[0]) == 0: self.layers = self.layers[1:]
RECURSIVE StripFirstLayers(_)
StripFirstLayers(layers) ==
  IF layers = <<>> THEN [layers |-> layers, exc |-> "IndexError"]
  ELSE IF Len(layers[1]) = 0 THEN StripFirstLayers(PySliceFrom(layers, 1))
  ELSE [layers |-> layers, exc |-> NoExc]

\* while len(self.layers[-1]) == 0: self.layers = self.layers[:-1]
RECURSIVE StripLastLayers(_)
StripLastLayers(layers) ==
  IF layers = <<>> THEN [layers |-> layers, exc |-> "IndexError"]
  ELSE IF Len(layers[Len(layers)]) = 0 THEN StripLastLayers(PySlice(layers, 0, -1))
  ELSE [layers |-> layers, exc |-> NoExc]

\* models.Tree.remove_node(node), for a node of the tree
remove_node(t, id) ==
  LET i == t.node_yxs[id][1]
      node == t.node_dict[id]
      nd1 == IF node.parent_id >= 0
               THEN [t.node_dict EXCEPT ![node.parent_id].child_ids = PyRemove(@, id)]
               ELSE t.node_dict
      nd2 == [k \in DOMAIN nd1 |->
               IF PyIn(k, node.child_ids) THEN [nd1[k] EXCEPT !.parent_id = -1] ELSE nd1[k]]
      layers1 == [t.node_layers EXCEPT ![i + 1] = PyRemove(@, LiveCell(id))]
      r == IF i = 0 THEN StripFirstLayers(layers1)
           ELSE IF i = Len(layers1) - 1 THEN StripLastLayers(layers1)
           ELSE [layers |-> layers1, exc |-> NoExc]
  IN [tree |-> [last_id |-> t.last_id,
                node_dict |-> DictDel(nd2, id),
                node_layers |-> r.layers,
                node_yxs |-> models_find_ij(r.layers)],
      exc |-> r.exc]

RemoveNode ==
  /\ raised = NoExc
  /\ \E id \in DOMAIN tree.node_dict :
       /\ \E r \in {remove_node(tree, id)} :
            /\ tree' = r.tree
            /\ raised' = r.exc
       /\ last' = Handler("remove", id, -1, DefaultCard, <<>>)
  /\ before' = Snapshot
  /\ UNCHANGED <<gi_base, undo_stack, redo_stack, origin, applied, painting, instances, text>>

\* a tree decoded from its text, before any removal
InitRemove == InitLayout

NextRemove == RemoveNode

SpecRemove == InitRemove /\ [][NextRemove]_vars

\* C35: remove_node(n) completes without error for every node n of every
\* tree; afterwards n is in no layer, no node has n as a child or as its
\* parent, and neither the first nor the last layer is empty
C35_RemoveNode ==
  last.op = "remove" =>
    /\ raised = NoExc
    /\ \A y \in 1..Len(tree.node_layers) :
         \A x \in 1..Len(tree.node_layers[y]) : tree.node_layers[y][x].id # last.id
    /\ \A k \in DOMAIN tree.node_dict :
         /\ ~PyIn(last.id, tree.node_dict[k].child_ids)
         /\ tree.node_dict[k].parent_id # last.id
    /\ tree.node_layers # <<>> =>
         /\ tree.node_layers[1] # <<>>
         /\ tree.node_layers[Len(tree.node_layers)] # <<>>

\* C36: an atomic edit that raises a structural edit error leaves the store
\* as it was: the node map (relations and cards), the layers, the reverse
\* index, the id counter and the generation-index base are those before the
\* call
C36_FailingEditChangesNothing ==
  (last.op = "edit" /\ raised = "TreeEditError")
    => /\ tree = before.tree
       /\ gi_base = before.gi_base

\* a DeleteRightmostNode that named a node of the store which is not the
\* last of the layer raised a structural edit error
C36_Witness ==
  /\ last.op = "edit"
  /\ raised = "TreeEditError"
  /\ last.edits[1].type = "DeleteRightmostNode"
  /\ last.edits[1].id \in DOMAIN before.tree.node_dict
  /\ before.tree.node_layers[last.edits[1].y + 1] # <<>>

\* C37: referential integrity.  In every state of a session, every
\* non-negative parent id and every entry of every child-id list of a node
\* of the node map is an id of the node map, and every node of a layer is
\* the node the node map holds for its id
C37_ReferentialIntegrity ==
  /\ \A id \in DOMAIN tree.node_dict :
       /\ tree.node_dict[id].parent_id >= 0 => tree.node_dict[id].parent_id \in DOMAIN tree.node_dict
       /\ \A k \in 1..Len(tree.node_dict[id].child_ids) :
            tree.node_dict[id].child_ids[k] \in DOMAIN tree.node_dict
  /\ \A y \in 1..Len(tree.node_layers) :
       \A x \in 1..Len(tree.node_layers[y]) :
         /\ tree.node_layers[y][x].live
         /\ tree.node_layers[y][x].id \in DOMAIN tree.node_dict

\* C38: a composite operation other than set generation index (new node,
\* new child, new parent, delete node, set card), applied without error to a
\* store satisfying the five invariants, leaves every generation index of
\* every node that is in the store before and after it unchanged
C38_GenerationIndexFrame ==
  (/\ Performed({"new_node", "new_child", "new_parent", "delete_node", "set_card"})
   /\ WellFormed(before.tree))
    => \A n \in DOMAIN before.tree.node_dict \cap DOMAIN tree.node_dict :
         \A j \in 0..(Len(gi_defs) - 1) :
           compute_gi(tree, gi_base, n, j) = compute_gi(before.tree, before.gi_base, n, j)

====
